---------------------------- MODULE Spec2Model ----------------------------
(***************************************************************************)
(* A model of the 3x-ui-manager client library: the response validator    *)
(* (code/util.py), the session wrapper XUIClient (api.py) with its        *)
(* retry / re-login loop, login, connect / disconnect and the singleton   *)
(* constructor, and the read methods of the endpoint groups               *)
(* (code/endpoints.py).                                                    *)
(***************************************************************************)
EXTENDS Integers, Sequences, FiniteSets, TLC

VARIABLES
    vin,            \* validator run: the decoded JSON object handed in
    vout,           \* validator run: "pending", a classification, or the exception raised
    instance,       \* XUIClient._instance: 0 is None, else the object it refers to
    objects,        \* how many XUIClient objects object.__new__ has allocated
    refs,           \* the references the XUIClient(...) expressions have returned
    session,        \* self.session: 0 is None, else the AsyncClient it refers to
    sessions,       \* how many AsyncClient objects connect() has created
    closed,         \* the AsyncClient objects that were closed (aclose)
    session_start,  \* self.session_start: None or the time of the last successful login
    session_duration, \* self.session_duration
    max_retries,    \* self.max_retries
    now,            \* the clock, datetime.now(UTC).timestamp()
    pc,             \* where the caller's task is: "idle", "request", "relogin", "sleep", "login", "done"
    op,             \* the method the caller invoked
    attempt,        \* the loop variable of _safe_request
    resp,           \* the last HTTP response received by the call
    log,            \* what the call has done so far: requests, validator runs, logins, sleeps
    result,         \* how the call ended: returned value or exception
    panel,          \* the inbound list the panel holds
    cache,          \* the alru_cache entry of get_production_inbounds for this client
    tasks,          \* the tasks the cache created to run get_production_inbounds
    bg,             \* the task running clear_prod_inbound_cache
    callers,        \* the application tasks calling get_production_inbounds
    epoch,          \* how many times cache_clear() has run
    returns,        \* the lists get_production_inbounds has returned, with the epoch of the call
    fpc,            \* where the task running a facade or endpoint operation is
    fop,            \* the operation it runs
    fargs,          \* the arguments it was called with
    responses,      \* the local list `responses` of the operation
    flog,           \* what the operation has done so far
    fresult         \* how the operation ended

cachevars == <<panel, cache, tasks, bg, callers, epoch, returns>>

opvars == <<fpc, fop, fargs, responses, flog, fresult>>

\* The variables of the cache and of the facade and endpoint operations.
facadevars == <<cachevars, opvars>>

-----------------------------------------------------------------------------
(* JSON values.  Every value is a record of one shape so that values of     *)
(* different JSON types can sit in one set: t is the JSON type, b the       *)
(* boolean (t = "bool"), s the characters of a string (t = "str"), the      *)
(* schema kind of a dict (t = "dict") or the kinds of the items of a list   *)
(* (t = "list").                                                            *)

JNull == [t |-> "null", b |-> FALSE, s |-> <<>>]

JBool(x) == [t |-> "bool", b |-> x, s |-> <<>>]

JStr(chars) == [t |-> "str", b |-> FALSE, s |-> chars]

JDict(kind) == [t |-> "dict", b |-> FALSE, s |-> <<kind>>]

JList(kinds) == [t |-> "list", b |-> FALSE, s |-> kinds]

\* Python truthiness of a decoded JSON value (the test `if success:`).
Truthy(v) ==
    CASE v.t = "null" -> FALSE
      [] v.t = "bool" -> v.b
      [] v.t = "str" -> v.s # <<>>
      [] v.t = "list" -> v.s # <<>>
      [] OTHER -> TRUE

UpperChars == <<"A","B","C","D","E","F","G","H","I","J","K","L","M",
                "N","O","P","Q","R","S","T","U","V","W","X","Y","Z">>

LowerChars == <<"a","b","c","d","e","f","g","h","i","j","k","l","m",
                "n","o","p","q","r","s","t","u","v","w","x","y","z">>

\* str.lower() on one character.
LowerChar(c) ==
    IF \E i \in 1..Len(UpperChars) : UpperChars[i] = c
    THEN LowerChars[CHOOSE i \in 1..Len(UpperChars) : UpperChars[i] = c]
    ELSE c

\* str.lower()
Lower(str) == [i \in 1..Len(str) |-> LowerChar(str[i])]

\* The Python test `sub in str` on strings.
Contains(str, sub) ==
    \E i \in 1..(Len(str) - Len(sub) + 1) : SubSeq(str, i, i + Len(sub) - 1) = sub

DATABASE == <<"d","a","t","a","b","a","s","e">>

LOCKED == <<"l","o","c","k","e","d">>

\* A decoded JSON object is the sequence of its <<key, value>> pairs in the
\* order of the document (a Python dict keeps insertion order).
Keys(obj) == [i \in 1..Len(obj) |-> obj[i][1]]

HasKey(obj, k) == \E i \in 1..Len(obj) : obj[i][1] = k

Get(obj, k) == obj[CHOOSE i \in 1..Len(obj) : obj[i][1] = k][2]

\* check_xui_response_validity(response): "OK", "DB_LOCKED", "ERROR", or the
\* exception it ends in: "FormatError" is the RuntimeError of its last line,
\* "AttributeError" is msg.lower() on a msg that is no string.
check_xui_response_validity(json_resp) ==
    IF Len(json_resp) = 3 /\ Keys(json_resp) = <<"success", "msg", "obj">>
    THEN LET success == Get(json_resp, "success")
             msg == Get(json_resp, "msg")
         IN  IF Truthy(success) THEN "OK"
             ELSE IF msg.t # "str" THEN "AttributeError"
             ELSE IF Contains(Lower(msg.s), DATABASE) /\ Contains(Lower(msg.s), LOCKED)
                  THEN "DB_LOCKED"
             ELSE "ERROR"
    ELSE "FormatError"

-----------------------------------------------------------------------------
(* The inputs of the validator runs.                                        *)

MsgLocked == JStr(<<"d","a","t","a","b","a","s","e"," ","i","s"," ","l","o","c","k","e","d">>)

MsgLockedMixed == JStr(<<"D","a","t","a","b","a","s","e"," ","I","s"," ","L","O","C","K","E","D">>)

MsgLockedReversed == JStr(<<"L","o","c","k","e","d",":"," ","D","A","T","A","B","A","S","E">>)

MsgDatabaseOnly == JStr(<<"d","a","t","a","b","a","s","e"," ","e","r","r","o","r">>)

MsgLockedOnly == JStr(<<"l","o","c","k","e","d"," ","o","u","t">>)

MsgEmpty == JStr(<<>>)

MsgValues == {MsgLocked, MsgLockedMixed, MsgLockedReversed, MsgDatabaseOnly,
              MsgLockedOnly, MsgEmpty, JNull, JBool(TRUE)}

SuccessValues == {JBool(TRUE), JBool(FALSE), JNull}

ObjValues == {JNull, JDict("keys"), JList(<<>>)}

KeyOrders == {<<"success", "msg", "obj">>, <<"success", "obj", "msg">>,
              <<"msg", "success", "obj">>, <<"msg", "obj", "success">>,
              <<"obj", "success", "msg">>, <<"obj", "msg", "success">>}

OtherShapes == {<<>>, <<"success">>, <<"success", "msg">>, <<"success", "obj">>,
                <<"msg", "obj">>, <<"success", "msg", "obj", "extra">>,
                <<"success", "message", "obj">>, <<"ok", "msg", "obj">>,
                <<"success", "msg", "data">>}

ValueOf(k, sv, mv, ov) ==
    CASE k = "success" -> sv
      [] k \in {"msg", "message"} -> mv
      [] k \in {"obj", "data"} -> ov
      [] OTHER -> JNull

\* The JSON object with the given keys, in that order.
Envelope(keys, sv, mv, ov) == [i \in 1..Len(keys) |-> <<keys[i], ValueOf(keys[i], sv, mv, ov)>>]

Envelopes ==
    {Envelope(ks, sv, mv, ov) : ks \in KeyOrders \cup OtherShapes,
                                sv \in SuccessValues, mv \in MsgValues, ov \in ObjValues}

\* One run of check_xui_response_validity on the envelope vin.
Validate ==
    /\ vout = "pending"
    /\ vout' = check_xui_response_validity(vin)
    /\ UNCHANGED <<vin, instance, objects, refs, session, sessions, closed, session_start,
                   session_duration, max_retries, now, pc, op, attempt, resp, log, result,
                   facadevars>>

-----------------------------------------------------------------------------
(* The client: constants, the transport's answers, the call's bookkeeping.  *)

None == 0 - 1

\* self.max_retries as __init__ sets it.
DEFAULT_MAX_RETRIES == 5

\* self.retry_delay as __init__ sets it.
RETRY_DELAY == 1

\* The values the embedding application assigns to client.max_retries.
RetriesValues == {0, 1, 2, 3}

\* The values of session_duration passed to the constructor.
Durations == {0, 1}

\* The clock stops advancing here.
MaxTime == 2

\* connect() is called at most this often.
MaxSessions == 1

NoResp == [status |-> 0, body |-> <<>>]

NoResult == [kind |-> "none", exc |-> "", value |-> JNull]

\* The cache of get_production_inbounds holds nothing for the client.
NoEntry == [state |-> "empty", task |-> 0]

\* clear_prod_inbound_cache was not started.
NoBg == [pc |-> "off", task |-> 0]

Return(v) == [kind |-> "return", exc |-> "", value |-> v]

Raise(e) == [kind |-> "raise", exc |-> e, value |-> JNull]

Event(e, st, c) == [ev |-> e, st |-> st, cls |-> c]

StdKeys == <<"success", "msg", "obj">>

BodyOk == Envelope(StdKeys, JBool(TRUE), MsgEmpty, JDict("keys"))

BodyOkNull == Envelope(StdKeys, JBool(TRUE), JNull, JNull)

BodyOkUuid == Envelope(StdKeys, JBool(TRUE), MsgEmpty, JDict("uuid"))

BodyOkInbound == Envelope(StdKeys, JBool(TRUE), MsgEmpty, JDict("inbound"))

BodyOkInbounds == Envelope(StdKeys, JBool(TRUE), MsgEmpty, JList(<<"inbound", "inbound">>))

BodyOkStats == Envelope(StdKeys, JBool(TRUE), MsgEmpty, JDict("stats"))

BodyOkStatsList == Envelope(StdKeys, JBool(TRUE), MsgEmpty, JList(<<"stats">>))

BodyLocked == Envelope(StdKeys, JBool(FALSE), MsgLockedMixed, JNull)

BodyError == Envelope(StdKeys, JBool(FALSE), MsgDatabaseOnly, JNull)

BodyErrorList == Envelope(StdKeys, JBool(FALSE), MsgLockedOnly, JList(<<>>))

BodyNullMsg == Envelope(StdKeys, JBool(FALSE), JNull, JNull)

BodyReordered == Envelope(<<"msg", "success", "obj">>, JBool(TRUE), MsgEmpty, JNull)

BodyShort == Envelope(<<"success", "msg">>, JBool(FALSE), MsgEmpty, JNull)

\* The bodies the panel (or whatever answers in its place) sends.
Bodies == {BodyOk, BodyOkNull, BodyOkUuid, BodyOkInbound, BodyOkInbounds, BodyOkStats,
           BodyOkStatsList, BodyLocked, BodyError, BodyErrorList, BodyNullMsg,
           BodyReordered, BodyShort}

\* The answers of the transport to a request of _safe_request.
Responses ==
    [status : {200}, body : Bodies]
    \cup [status : {201}, body : {BodyOk, BodyError}]
    \cup [status : {401}, body : {BodyOk, BodyLocked}]
    \cup [status : {404}, body : {BodyShort}]
    \cup [status : {500}, body : {BodyLocked}]

\* The answers to the login POST: status and a body with a success entry.
LoginResponses ==
    [status : {200}, body : {BodyOk, BodyError, BodyLocked}]
    \cup [status : {201, 500}, body : {BodyOk}]

SafeMethods == {"safe_get", "safe_post"}

ReadMethods == {"new_uuid", "new_x25519", "new_mldsa65", "new_mlkem768", "get_all",
                "get_specific_inbound", "get_client_with_email", "get_client_with_uuid"}

\* async_range(n) with n itself as one more value.
async_range_inclusive(n) == [i \in 1..(n + 1) |-> i - 1]

\* async_range(n): the values the loop variable takes, in order.
async_range(n) == [i \in 1..n |-> i - 1]

\* Whether the loop of _safe_request has a value after `a`.
HasNext(a, n) == \E i \in 1..Len(async_range(n)) : async_range(n)[i] = a + 1

\* SessionExpired that takes every session for expired.
SessionExpired_always(start, t, duration) == TRUE

\* SessionExpired with the age compared by >= instead of >.
SessionExpired_inclusive(start, t, duration) == start = None \/ t - start >= duration

\* The 404 branch's test of _safe_request: the session is taken to be expired.
SessionExpired(start, t, duration) == start = None \/ t - start > duration

-----------------------------------------------------------------------------
(* The endpoint groups' read methods (code/endpoints.py).                   *)

\* BaseModel.from_list(args, client) for the model class whose wire schema is
\* `kind`: [cls(client=client, **obj) for obj in args].
from_list(args, kind) ==
    CASE args.t = "list" ->
            IF \A i \in 1..Len(args.s) : args.s[i] = kind
            THEN Return(args) ELSE Raise("ValidationError")
      [] args.t = "str" /\ args.s = <<>> -> Return(JList(<<>>))
      [] OTHER -> Raise("TypeError")

\* cls(client=client, **obj) for the model class whose wire schema is `kind`.
construct_model(obj, kind) ==
    IF obj.t # "dict" THEN Raise("TypeError")
    ELSE IF obj.s = <<kind>> THEN Return(obj) ELSE Raise("ValidationError")

\* cls.model_validate(obj) for the model class whose wire schema is `kind`.
model_validate(obj, kind) ==
    IF obj.t = "dict" /\ obj.s = <<kind>> THEN Return(obj) ELSE Raise("ValidationError")

\* resp_json["uuid"] of Server.new_uuid.
subscript_uuid(obj) ==
    IF obj.t # "dict" THEN Raise("TypeError")
    ELSE IF obj.s = <<"uuid">> THEN Return(JStr(<<"u">>)) ELSE Raise("KeyError")

\* BaseEndpoint._simple_get after safe_get has returned r: the obj entry of
\* the body, or the wrong-status RuntimeError.
simple_get(r) ==
    IF r.status = 200 THEN Return(Get(r.body, "obj")) ELSE Raise("RuntimeError:simple_get status")

\* What the read method m makes of the value _simple_get returned.
read_method(m, obj) ==
    CASE m = "new_uuid" -> subscript_uuid(obj)
      [] m \in {"new_x25519", "new_mldsa65", "new_mlkem768"} -> Return(obj)
      [] m = "get_all" -> from_list(obj, "inbound")
      [] m = "get_specific_inbound" -> construct_model(obj, "inbound")
      [] m = "get_client_with_email" -> model_validate(obj, "stats")
      [] m = "get_client_with_uuid" -> from_list(obj, "stats")

\* How the call of method m ends once _safe_request has returned r.
Returned(m, r) ==
    IF m \in SafeMethods THEN Return(Get(r.body, "obj"))
    ELSE IF simple_get(r).kind = "raise" THEN simple_get(r)
    ELSE read_method(m, simple_get(r).value)

-----------------------------------------------------------------------------
(* XUIClient (api.py).                                                      *)

\* XUIClient.__new__ without the test of _instance: a new object every time.
XUIClient_new_always(inst, count) == [instance |-> count + 1, objects |-> count + 1]

\* XUIClient.__new__: the object the constructor call works on and the number
\* of objects allocated afterwards.
XUIClient_new(inst, count) ==
    IF inst = 0 THEN [instance |-> count + 1, objects |-> count + 1]
    ELSE [instance |-> inst, objects |-> count]

callvars == <<pc, op, attempt, resp, log, result>>

objvars == <<instance, objects, refs>>

sessvars == <<session, sessions, closed>>

cfgvars == <<session_duration, max_retries>>

ClientInit ==
    /\ instance = 0 /\ objects = 0 /\ refs = {}
    /\ session = 0 /\ sessions = 0 /\ closed = {}
    /\ session_start = None
    /\ session_duration = 0
    /\ max_retries = 0
    /\ now = 0
    /\ pc = "idle" /\ op = "" /\ attempt = 0 /\ resp = NoResp /\ log = <<>>
    /\ result = NoResult

\* XUIClient(..., session_duration=d): __new__, then __init__ on what it returned.
Construct(d) ==
    /\ pc = "idle"
    /\ LET made == XUIClient_new(instance, objects)
       IN  /\ instance' = made.instance
           /\ objects' = made.objects
           /\ refs' = refs \cup {made.instance}
    /\ session' = 0
    /\ session_start' = None
    /\ session_duration' = d
    /\ max_retries' = DEFAULT_MAX_RETRIES
    /\ UNCHANGED <<sessions, closed, now, callvars, vin, vout, facadevars>>

\* client.max_retries = n, by the embedding application.
SetMaxRetries(n) ==
    /\ pc = "idle" /\ instance # 0
    /\ max_retries' = n
    /\ UNCHANGED <<objvars, sessvars, session_start, session_duration, now, callvars, vin, vout, facadevars>>

\* XUIClient.connect
Connect ==
    /\ pc = "idle" /\ instance # 0
    /\ sessions < MaxSessions
    /\ sessions' = sessions + 1
    /\ session' = sessions + 1
    /\ UNCHANGED <<objvars, closed, session_start, cfgvars, now, callvars, vin, vout, facadevars>>

\* XUIClient.disconnect
Disconnect ==
    /\ pc = "idle" /\ instance # 0
    /\ session # 0
    /\ closed' = closed \cup {session}
    /\ UNCHANGED <<objvars, session, sessions, session_start, cfgvars, now, callvars, vin, vout, facadevars>>

\* Time passes.
Tick ==
    /\ now < MaxTime
    /\ now' = now + 1
    /\ UNCHANGED <<objvars, sessvars, session_start, cfgvars, callvars, vin, vout, facadevars>>

\* The call ends: pc, the result, and nothing else of the call changes.
End(res) == pc' = "done" /\ result' = res

\* _safe_request moves to the loop's next value after `a`, or falls out of
\* the loop into the RuntimeError of its last line.
NextAttempt(a) ==
    IF HasNext(a, max_retries)
    THEN pc' = "request" /\ attempt' = a + 1 /\ UNCHANGED result
    ELSE End(Raise("RuntimeError:didn't exit")) /\ UNCHANGED attempt

\* safe_get / safe_post, or a read method of an endpoint group, which calls
\* safe_get through _simple_get: up to the first request of _safe_request.
Call(m) ==
    /\ pc = "idle" /\ instance # 0
    /\ op' = m
    /\ resp' = NoResp /\ log' = <<>>
    /\ IF session = 0
       THEN End(Raise("RuntimeError:Session is not initialized")) /\ UNCHANGED attempt
       ELSE NextAttempt(0 - 1)
    /\ UNCHANGED <<objvars, sessvars, session_start, cfgvars, now, vin, vout, facadevars>>

\* safe_request_step with the retry bound tested as `attempt >= max_retries`.
safe_request_step_late_bound(r, a, n, start, t, duration) ==
    IF r.status \div 100 # 2
    THEN IF r.status = 404
         THEN IF SessionExpired(start, t, duration)
              THEN [do |-> "login", exc |-> "", cls |-> ""]
              ELSE [do |-> "raise", exc |-> "RuntimeError:real 404", cls |-> ""]
         ELSE [do |-> "raise", exc |-> "RuntimeError:Wrong status code", cls |-> ""]
    ELSE LET status == check_xui_response_validity(r.body)
         IN  CASE status = "OK" -> [do |-> "return", exc |-> "", cls |-> status]
               [] status = "DB_LOCKED" ->
                    IF a >= n
                    THEN [do |-> "raise", exc |-> "RuntimeError:Too many retries", cls |-> status]
                    ELSE [do |-> "sleep", exc |-> "", cls |-> status]
               [] status = "ERROR" -> [do |-> "return", exc |-> "", cls |-> status]
               [] OTHER -> [do |-> "raise", exc |-> status, cls |-> status]

\* safe_request_step with the validator run before the status is looked at.
safe_request_step_body_first(r, a, n, start, t, duration) ==
    LET status == check_xui_response_validity(r.body)
    IN  CASE status = "OK" /\ r.status \div 100 = 2 ->
                [do |-> "return", exc |-> "", cls |-> status]
          [] status = "DB_LOCKED" ->
                IF a + 1 >= n
                THEN [do |-> "raise", exc |-> "RuntimeError:Too many retries", cls |-> status]
                ELSE [do |-> "sleep", exc |-> "", cls |-> status]
          [] r.status = 404 ->
                IF SessionExpired(start, t, duration)
                THEN [do |-> "login", exc |-> "", cls |-> status]
                ELSE [do |-> "raise", exc |-> "RuntimeError:real 404", cls |-> status]
          [] r.status \div 100 # 2 ->
                [do |-> "raise", exc |-> "RuntimeError:Wrong status code", cls |-> status]
          [] status = "ERROR" -> [do |-> "return", exc |-> "", cls |-> status]
          [] OTHER -> [do |-> "raise", exc |-> status, cls |-> status]

\* safe_request_step with an ERROR envelope retried like a DB_LOCKED one.
safe_request_step_error_retried(r, a, n, start, t, duration) ==
    IF r.status \div 100 # 2
    THEN IF r.status = 404
         THEN IF SessionExpired(start, t, duration)
              THEN [do |-> "login", exc |-> "", cls |-> ""]
              ELSE [do |-> "raise", exc |-> "RuntimeError:real 404", cls |-> ""]
         ELSE [do |-> "raise", exc |-> "RuntimeError:Wrong status code", cls |-> ""]
    ELSE LET status == check_xui_response_validity(r.body)
         IN  CASE status = "OK" -> [do |-> "return", exc |-> "", cls |-> status]
               [] status \in {"DB_LOCKED", "ERROR"} ->
                    IF a + 1 >= n
                    THEN [do |-> "raise", exc |-> "RuntimeError:Too many retries", cls |-> status]
                    ELSE [do |-> "sleep", exc |-> "", cls |-> status]
               [] OTHER -> [do |-> "raise", exc |-> status, cls |-> status]

\* One pass of the body of _safe_request's loop on the response r of attempt
\* a: what it does next (do: "login", "sleep", "return", "raise"), the
\* exception it raises, and the validator's verdict (cls, "" when the
\* validator is not run).
safe_request_step(r, a, n, start, t, duration) ==
    IF r.status \div 100 # 2
    THEN IF r.status = 404
         THEN IF SessionExpired(start, t, duration)
              THEN [do |-> "login", exc |-> "", cls |-> ""]
              ELSE [do |-> "raise", exc |-> "RuntimeError:real 404", cls |-> ""]
         ELSE [do |-> "raise", exc |-> "RuntimeError:Wrong status code", cls |-> ""]
    ELSE LET status == check_xui_response_validity(r.body)
         IN  CASE status = "OK" -> [do |-> "return", exc |-> "", cls |-> status]
               [] status = "DB_LOCKED" ->
                    IF a + 1 >= n
                    THEN [do |-> "raise", exc |-> "RuntimeError:Too many retries", cls |-> status]
                    ELSE [do |-> "sleep", exc |-> "", cls |-> status]
               [] status = "ERROR" -> [do |-> "return", exc |-> "", cls |-> status]
               [] OTHER -> [do |-> "raise", exc |-> status, cls |-> status]

\* What the answer r to the login POST says, as the log keeps it.
LoginSays(r) ==
    IF HasKey(r.body, "success") /\ Truthy(Get(r.body, "success"))
    THEN "success:true" ELSE "success:false"

\* login_step that leaves session_start as it was.
login_step_no_stamp(r, start, t) ==
    IF r.status = 200
    THEN IF ~HasKey(r.body, "success") THEN [start |-> start, res |-> Raise("KeyError")]
         ELSE IF Truthy(Get(r.body, "success")) THEN [start |-> start, res |-> Return(JNull)]
         ELSE [start |-> start, res |-> Raise("ValueError:wrong credentials")]
    ELSE [start |-> start, res |-> Raise("RuntimeError:login status")]

\* login_step that takes every 2xx status for 200.
login_step_any_2xx(r, start, t) ==
    IF r.status \div 100 = 2
    THEN IF ~HasKey(r.body, "success") THEN [start |-> start, res |-> Raise("KeyError")]
         ELSE IF Truthy(Get(r.body, "success")) THEN [start |-> t, res |-> Return(JNull)]
         ELSE [start |-> start, res |-> Raise("ValueError:wrong credentials")]
    ELSE [start |-> start, res |-> Raise("RuntimeError:login status")]

\* login_step that stamps session_start only when it is None.
login_step_first_only(r, start, t) ==
    IF r.status = 200
    THEN IF ~HasKey(r.body, "success") THEN [start |-> start, res |-> Raise("KeyError")]
         ELSE IF Truthy(Get(r.body, "success"))
         THEN [start |-> IF start = None THEN t ELSE start, res |-> Return(JNull)]
         ELSE [start |-> start, res |-> Raise("ValueError:wrong credentials")]
    ELSE [start |-> start, res |-> Raise("RuntimeError:login status")]

\* XUIClient.login once the POST is answered by r: the new session_start and
\* how login ends.
login_step(r, start, t) ==
    IF r.status = 200
    THEN IF ~HasKey(r.body, "success") THEN [start |-> start, res |-> Raise("KeyError")]
         ELSE IF Truthy(Get(r.body, "success")) THEN [start |-> t, res |-> Return(JNull)]
         ELSE [start |-> start, res |-> Raise("ValueError:wrong credentials")]
    ELSE [start |-> start, res |-> Raise("RuntimeError:login status")]

\* self.session.request(...) of _safe_request is answered by r, and the loop
\* body runs up to its next await, return or raise.
HttpResponse(r) ==
    /\ pc = "request"
    /\ IF session \in closed
       THEN /\ End(Raise("RuntimeError:client closed"))
            /\ UNCHANGED <<attempt, resp, log>>
       ELSE LET d == safe_request_step(r, attempt, max_retries, session_start, now,
                                       session_duration)
            IN  /\ resp' = r
                /\ log' = log \o <<Event("request", r.status, "")>>
                              \o (IF d.cls # "" THEN <<Event("validate", r.status, d.cls)>>
                                  ELSE <<>>)
                /\ UNCHANGED attempt
                /\ CASE d.do = "login" -> pc' = "relogin" /\ UNCHANGED result
                     [] d.do = "sleep" -> pc' = "sleep" /\ UNCHANGED result
                     [] d.do = "return" -> End(Returned(op, r))
                     [] OTHER -> End(Raise(d.exc))
    /\ UNCHANGED <<objvars, sessvars, session_start, cfgvars, now, op, vin, vout, facadevars>>

\* await asyncio.sleep(self.retry_delay) of _safe_request is over.
SleepDone ==
    /\ pc = "sleep"
    /\ now' = IF now + RETRY_DELAY <= MaxTime THEN now + RETRY_DELAY ELSE MaxTime
    /\ log' = Append(log, Event("sleep", 0, ""))
    /\ NextAttempt(attempt)
    /\ UNCHANGED <<objvars, sessvars, session_start, cfgvars, op, resp, vin, vout, facadevars>>

\* XUIClient.login called by the application: up to the POST.
CallLogin ==
    /\ pc = "idle" /\ instance # 0
    /\ op' = "login"
    /\ IF session = 0
       THEN End(Raise("AttributeError"))
       ELSE pc' = "login" /\ UNCHANGED result
    /\ UNCHANGED <<objvars, sessvars, session_start, cfgvars, now, attempt, resp, log, vin, vout, facadevars>>

\* The POST of login is answered by r: login called by the application
\* (pc = "login") or by the 404 branch of _safe_request (pc = "relogin").
LoginResponse(r) ==
    /\ pc \in {"login", "relogin"}
    /\ IF session \in closed
       THEN /\ End(Raise("RuntimeError:client closed"))
            /\ UNCHANGED <<attempt, log, session_start>>
       ELSE LET l == login_step(r, session_start, now)
            IN  /\ session_start' = l.start
                /\ log' = Append(log, Event("login", r.status, LoginSays(r)))
                /\ IF l.res.kind = "raise" THEN End(l.res) /\ UNCHANGED attempt
                   ELSE IF pc = "login" THEN End(l.res) /\ UNCHANGED attempt
                   ELSE NextAttempt(attempt)
    /\ UNCHANGED <<objvars, sessvars, cfgvars, now, op, resp, vin, vout, facadevars>>

\* The caller takes the result; the task is over.
Finish ==
    /\ pc = "done"
    /\ pc' = "idle" /\ op' = "" /\ attempt' = 0 /\ resp' = NoResp /\ log' = <<>>
    /\ result' = NoResult
    /\ UNCHANGED <<objvars, sessvars, session_start, cfgvars, now, vin, vout, facadevars>>

vars == <<vin, vout, instance, objects, refs, session, sessions, closed, session_start,
          session_duration, max_retries, now, pc, op, attempt, resp, log, result, facadevars>>

Init ==
    /\ ClientInit /\ vin = <<>> /\ vout = "unused"
    /\ panel = <<>> /\ cache = NoEntry /\ tasks = <<>> /\ bg = NoBg /\ callers = <<>>
    /\ epoch = 0 /\ returns = {}
    /\ fpc = "idle" /\ fop = "" /\ fargs = <<>> /\ responses = <<>> /\ flog = <<>>
    /\ fresult = NoResult

Next ==
    \/ \E d \in Durations : Construct(d)
    \/ \E n \in RetriesValues : SetMaxRetries(n)
    \/ Connect
    \/ Disconnect
    \/ Tick
    \/ \E m \in SafeMethods \cup ReadMethods : Call(m)
    \/ CallLogin
    \/ \E r \in Responses : HttpResponse(r)
    \/ \E r \in LoginResponses : LoginResponse(r)
    \/ SleepDone
    \/ Finish

\* The client and one caller's task.
Spec == Init /\ [][Next]_vars

\* A validator run starts with any envelope of Envelopes; the client is
\* not constructed.
InitValidator ==
    /\ vin \in Envelopes /\ vout = "pending"
    /\ instance = 0 /\ objects = 0 /\ refs = {}
    /\ session = 0 /\ sessions = 0 /\ closed = {}
    /\ session_start = None
    /\ session_duration = 0
    /\ max_retries = 0
    /\ now = 0
    /\ pc = "idle" /\ op = "" /\ attempt = 0 /\ resp = NoResp /\ log = <<>>
    /\ result = NoResult
    /\ panel = <<>> /\ cache = NoEntry /\ tasks = <<>> /\ bg = NoBg /\ callers = <<>>
    /\ epoch = 0 /\ returns = {}
    /\ fpc = "idle" /\ fop = "" /\ fargs = <<>> /\ responses = <<>> /\ flog = <<>>
    /\ fresult = NoResult

\* Runs of the response validator alone, on every envelope of Envelopes.
SpecValidator == InitValidator /\ [][Validate]_vars

-----------------------------------------------------------------------------
(* The production inbounds and their cache (api.py, get_production_inbounds *)
(* under @alru_cache, and clear_prod_inbound_cache started by __aenter__).  *)

\* self.PROD_STRING as __init__ sets it.
PROD_STRING == <<"t","e","s","t","e","r","-","7","7","7">>

\* Remarks that carry the marker, in some spelling and at some place.
MarkedRemarks ==
    {<<"t","e","s","t","e","r","-","7","7","7">>,
     <<"T","e","s","t","e","r","-","7","7","7"," ","E","U">>,
     <<"n","l"," ","T","E","S","T","E","R","-","7","7","7">>}

\* Remarks that do not carry it.
UnmarkedRemarks ==
    {<<>>,
     <<"t","e","s","t","e","r","-","7","7">>,
     <<"T","E","S","T","E","R"," ","7","7","7">>}

\* The inbound lists of the filter runs have at most this many inbounds.
MaxInbounds == 3

\* An Inbound, as far as the facade reads it: its id and its remark.
Inbound(id, remark) == [id |-> id, remark |-> remark]

\* The lists Inbounds.get_all returns: inbounds with the ids 1, 2, ... in the
\* panel's order and any of the remarks.
InboundLists ==
    UNION {{[i \in 1..n |-> Inbound(i, rs[i])] : rs \in [1..n -> MarkedRemarks \cup UnmarkedRemarks]}
           : n \in 0..MaxInbounds}

\* The loop of get_production_inbounds with the marker compared as it is
\* written, without lower().
usable_inbounds_case_sensitive(inbounds) ==
    SelectSeq(inbounds, LAMBDA inb : Contains(inb.remark, PROD_STRING))

\* The loop of get_production_inbounds: usable_inbounds, in the order of the
\* list get_all returned.
usable_inbounds(inbounds) ==
    SelectSeq(inbounds, LAMBDA inb : Contains(Lower(inb.remark), Lower(PROD_STRING)))

NoProduction == Raise("RuntimeError:No production inbounds found")

\* The body of get_production_inbounds once get_all has returned inbounds.
production_inbounds(inbounds) ==
    IF Len(usable_inbounds(inbounds)) = 0
    THEN NoProduction
    ELSE Return(usable_inbounds(inbounds))

\* One run of the body of get_production_inbounds on the list in panel.
RunFilter ==
    /\ fpc = "idle"
    /\ fpc' = "done" /\ fop' = "get_production_inbounds"
    /\ fresult' = production_inbounds(panel)
    /\ UNCHANGED <<objvars, sessvars, session_start, cfgvars, now, callvars, vin, vout,
                   cachevars, fargs, responses, flog>>

\* Runs of the filter on every list of InboundLists; the client is constructed.
InitFilter ==
    /\ vin = <<>> /\ vout = "unused"
    /\ instance = 1 /\ objects = 1 /\ refs = {1}
    /\ session = 0 /\ sessions = 0 /\ closed = {}
    /\ session_start = None
    /\ session_duration = 0
    /\ max_retries = DEFAULT_MAX_RETRIES
    /\ now = 0
    /\ pc = "idle" /\ op = "" /\ attempt = 0 /\ resp = NoResp /\ log = <<>>
    /\ result = NoResult
    /\ panel \in InboundLists
    /\ cache = NoEntry /\ tasks = <<>> /\ bg = NoBg /\ callers = <<>>
    /\ epoch = 0 /\ returns = {}
    /\ fpc = "idle" /\ fop = "" /\ fargs = <<>> /\ responses = <<>> /\ flog = <<>>
    /\ fresult = NoResult

SpecFilter == InitFilter /\ [][RunFilter]_vars

\* await asyncio.sleep(10) of clear_prod_inbound_cache.
CACHE_SLEEP == 10

\* cache_clear() runs at most this often.
MaxClears == 2

\* get_production_inbounds is started (on a cache miss) at most this often.
MaxFetches == 3

\* The application tasks that call get_production_inbounds.
Callers == {1, 2}

\* The exceptions Inbounds.get_all ends in when its request fails or the
\* answer does not parse.
GetAllFailures == {"RuntimeError:Too many retries", "ValidationError"}

\* The inbound lists the panel holds while the cache is watched.
CachePanels ==
    {<<Inbound(1, <<"t","e","s","t","e","r","-","7","7","7">>),
       Inbound(2, <<"n","l"," ","T","E","S","T","E","R","-","7","7","7">>)>>,
     <<Inbound(1, <<"t","e","s","t","e","r","-","7","7">>),
       Inbound(2, <<"t","e","s","t","e","r","-","7","7","7">>)>>,
     <<Inbound(1, <<"t","e","s","t","e","r","-","7","7">>)>>}

\* The task the cache creates on a miss, in the epoch ep.
Task(ep) == [state |-> "running", epoch |-> ep, res |-> NoResult]

NoCall == [pc |-> "idle", task |-> 0, epoch |-> 0, res |-> NoResult]

\* alru_lookup without the sharing of a task that is still running.
alru_lookup_no_sharing(entry, tks) ==
    IF entry.state = "empty" THEN "miss"
    ELSE IF tks[entry.task].state = "running" THEN "miss"
    ELSE IF tks[entry.task].res.kind = "raise" THEN "miss"
    ELSE "hit"

\* What the wrapper of @alru_cache finds for the key (self,): "miss" with no
\* entry or with an entry whose task ended in an exception, "wait" with an
\* entry whose task is still running, "hit" with an entry whose task returned.
alru_lookup(entry, tks) ==
    IF entry.state = "empty" THEN "miss"
    ELSE IF tks[entry.task].state = "running" THEN "wait"
    ELSE IF tks[entry.task].res.kind = "raise" THEN "miss"
    ELSE "hit"

\* self.get_production_inbounds() up to its return or its await: the entry
\* and the tasks afterwards, the task whose outcome the call takes, and
\* whether it has it already.
alru_call(entry, tks, ep) ==
    CASE alru_lookup(entry, tks) = "miss" ->
            [cache |-> [state |-> "set", task |-> Len(tks) + 1],
             tasks |-> Append(tks, Task(ep)), task |-> Len(tks) + 1, done |-> FALSE]
      [] alru_lookup(entry, tks) = "wait" ->
            [cache |-> entry, tasks |-> tks, task |-> entry.task, done |-> FALSE]
      [] OTHER ->
            [cache |-> entry, tasks |-> tks, task |-> entry.task, done |-> TRUE]

\* A call of epoch ep has ended as res: the lists returned so far.
Returns(ep, res) ==
    IF res.kind = "return" THEN returns \cup {[epoch |-> ep, list |-> res.value]}
    ELSE returns

\* XUIClient.__aenter__: connect(), and the task of clear_prod_inbound_cache
\* is created.
AEnter ==
    /\ bg.pc = "off"
    /\ sessions' = sessions + 1
    /\ session' = sessions + 1
    /\ bg' = [pc |-> "clear", task |-> 0]
    /\ UNCHANGED <<objvars, closed, session_start, cfgvars, now, callvars, vin, vout,
                   panel, cache, tasks, callers, epoch, returns, opvars>>

\* clear_prod_inbound_cache, from the top of its loop to its first await:
\* cache_clear(), then get_production_inbounds() is called.
BgClear ==
    /\ bg.pc = "clear"
    /\ epoch < MaxClears /\ Len(tasks) < MaxFetches
    /\ epoch' = epoch + 1
    /\ LET c == alru_call(NoEntry, tasks, epoch + 1)
       IN  /\ cache' = c.cache
           /\ tasks' = c.tasks
           /\ bg' = [pc |-> "refill", task |-> c.task]
    /\ UNCHANGED <<objvars, sessvars, session_start, cfgvars, now, callvars, vin, vout,
                   panel, callers, returns, opvars>>

\* The task t running get_production_inbounds ends: get_all has returned
\* the panel's list (out = "ok") and the filter has run, or get_all has
\* raised out.
FetchDone(t, out) ==
    /\ t \in 1..Len(tasks) /\ tasks[t].state = "running"
    /\ tasks' = [tasks EXCEPT ![t] = [state |-> "done", epoch |-> tasks[t].epoch,
                                      res |-> IF out = "ok" THEN production_inbounds(panel)
                                              ELSE Raise(out)]]
    /\ UNCHANGED <<objvars, sessvars, session_start, cfgvars, now, callvars, vin, vout,
                   panel, cache, bg, callers, epoch, returns, opvars>>

\* clear_prod_inbound_cache gets the outcome of its await: on a list it goes
\* to sleep, on an exception, which nothing in the loop catches, it ends.
BgResume ==
    /\ bg.pc = "refill" /\ tasks[bg.task].state = "done"
    /\ bg' = [bg EXCEPT !.pc = IF tasks[bg.task].res.kind = "raise" THEN "dead" ELSE "sleep"]
    /\ returns' = Returns(tasks[bg.task].epoch, tasks[bg.task].res)
    /\ UNCHANGED <<objvars, sessvars, session_start, cfgvars, now, callvars, vin, vout,
                   panel, cache, tasks, callers, epoch, opvars>>

\* await asyncio.sleep(10) of clear_prod_inbound_cache is over.
BgWake ==
    /\ bg.pc = "sleep"
    /\ bg' = [bg EXCEPT !.pc = "clear"]
    /\ now' = IF now + CACHE_SLEEP <= MaxTime THEN now + CACHE_SLEEP ELSE MaxTime
    /\ UNCHANGED <<objvars, sessvars, session_start, cfgvars, callvars, vin, vout,
                   panel, cache, tasks, callers, epoch, returns, opvars>>

\* The application task c calls get_production_inbounds() inside the
\* `async with` block.
CallerCall(c) ==
    /\ bg.pc # "off" /\ callers[c].pc = "idle"
    /\ LET r == alru_call(cache, tasks, epoch)
       IN  /\ Len(r.tasks) <= MaxFetches
           /\ cache' = r.cache
           /\ tasks' = r.tasks
           /\ IF r.done
              THEN /\ callers' = [callers EXCEPT ![c] = [pc |-> "idle", task |-> r.task,
                                                        epoch |-> epoch,
                                                        res |-> tasks[r.task].res]]
                   /\ returns' = Returns(epoch, tasks[r.task].res)
              ELSE /\ callers' = [callers EXCEPT ![c] = [pc |-> "waiting", task |-> r.task,
                                                        epoch |-> epoch, res |-> NoResult]]
                   /\ UNCHANGED returns
    /\ UNCHANGED <<objvars, sessvars, session_start, cfgvars, now, callvars, vin, vout,
                   panel, bg, epoch, opvars>>

\* The application task c gets the outcome of the task it awaits.
CallerResume(c) ==
    /\ callers[c].pc = "waiting" /\ tasks[callers[c].task].state = "done"
    /\ callers' = [callers EXCEPT ![c].pc = "idle", ![c].res = tasks[callers[c].task].res]
    /\ returns' = Returns(callers[c].epoch, tasks[callers[c].task].res)
    /\ UNCHANGED <<objvars, sessvars, session_start, cfgvars, now, callvars, vin, vout,
                   panel, cache, tasks, bg, epoch, opvars>>

\* The panel's inbounds are edited.
PanelChange(p) ==
    /\ panel # p
    /\ panel' = p
    /\ UNCHANGED <<objvars, sessvars, session_start, cfgvars, now, callvars, vin, vout,
                   cache, tasks, bg, callers, epoch, returns, opvars>>

\* The client is constructed; nothing was called yet.
InitCache ==
    /\ vin = <<>> /\ vout = "unused"
    /\ instance = 1 /\ objects = 1 /\ refs = {1}
    /\ session = 0 /\ sessions = 0 /\ closed = {}
    /\ session_start = None
    /\ session_duration = 0
    /\ max_retries = DEFAULT_MAX_RETRIES
    /\ now = 0
    /\ pc = "idle" /\ op = "" /\ attempt = 0 /\ resp = NoResp /\ log = <<>>
    /\ result = NoResult
    /\ panel \in CachePanels
    /\ cache = NoEntry /\ tasks = <<>> /\ bg = NoBg /\ callers = [c \in Callers |-> NoCall]
    /\ epoch = 0 /\ returns = {}
    /\ fpc = "idle" /\ fop = "" /\ fargs = <<>> /\ responses = <<>> /\ flog = <<>>
    /\ fresult = NoResult

NextCache ==
    \/ AEnter
    \/ BgClear
    \/ \E t \in 1..MaxFetches, out \in {"ok"} \cup GetAllFailures : FetchDone(t, out)
    \/ BgResume
    \/ BgWake
    \/ \E c \in Callers : CallerCall(c)
    \/ \E c \in Callers : CallerResume(c)
    \/ \E p \in CachePanels : PanelChange(p)

\* The client inside `async with`: the background task, the tasks of the
\* cache and the application's calls of get_production_inbounds.
SpecCache == InitCache /\ [][NextCache]_vars

-----------------------------------------------------------------------------
(* The identifier helpers (code/util.py).                                   *)

Digits == <<"0","1","2","3","4","5","6","7","8","9">>

\* str(n) for an integer n.
RECURSIVE str_int(_)
str_int(n) ==
    IF n < 0 THEN <<"-">> \o str_int(0 - n)
    ELSE IF n < 10 THEN <<Digits[n + 1]>>
    ELSE str_int(n \div 10) \o <<Digits[(n % 10) + 1]>>

\* A telegram id is a non-negative integer of up to 18 digits, kept as the
\* pair of hi and lo with the value hi * 10^9 + lo, 0 <= lo < 10^9.
TgId(hi, lo) == [hi |-> hi, lo |-> lo]

\* n copies of "0"; none for n <= 0, as Python's n * '0'.
Zeros(n) == [i \in 1..n |-> "0"]

\* str(telegram_id)
str_id(id) ==
    IF id.hi = 0 THEN str_int(id.lo)
    ELSE str_int(id.hi) \o Zeros(9 - Len(str_int(id.lo))) \o str_int(id.lo)

\* generate_email_from_tgid_inbid without the "IB" between the two ids.
generate_email_no_separator(telegram_id, inbound_id) ==
    <<"T","G">> \o str_id(telegram_id) \o str_int(inbound_id)

\* generate_email_from_tgid_inbid(telegram_id, inbound_id): f"TG{telegram_id}IB{inbound_id}"
generate_email_from_tgid_inbid(telegram_id, inbound_id) ==
    <<"T","G">> \o str_id(telegram_id) \o <<"I","B">> \o str_int(inbound_id)

\* The characters of the base64 alphabet, by their 6-bit value.
B64 == <<"A","B","C","D","E","F","G","H","I","J","K","L","M","N","O","P","Q","R","S","T",
         "U","V","W","X","Y","Z","a","b","c","d","e","f","g","h","i","j","k","l","m","n",
         "o","p","q","r","s","t","u","v","w","x","y","z","0","1","2","3","4","5","6","7",
         "8","9","+","/">>

\* The UTF-8 byte of a character of str(n): a digit or the minus sign.
Ord(c) == IF c = "-" THEN 45 ELSE 47 + CHOOSE i \in 1..10 : Digits[i] = c

\* base64.b64encode(bytes).decode() on the bytes of the string str.
RECURSIVE b64encode(_)
b64encode(str) ==
    CASE Len(str) = 0 -> <<>>
      [] Len(str) = 1 ->
            LET n == Ord(str[1]) * 16
            IN  <<B64[(n \div 64) + 1], B64[(n % 64) + 1], "=", "=">>
      [] Len(str) = 2 ->
            LET n == (Ord(str[1]) * 256 + Ord(str[2])) * 4
            IN  <<B64[(n \div 4096) + 1], B64[((n \div 64) % 64) + 1], B64[(n % 64) + 1], "=">>
      [] OTHER ->
            LET n == (Ord(str[1]) * 256 + Ord(str[2])) * 256 + Ord(str[3])
            IN  <<B64[(n \div 262144) + 1], B64[((n \div 4096) % 64) + 1],
                  B64[((n \div 64) % 64) + 1], B64[(n % 64) + 1]>>
                \o b64encode(SubSeq(str, 4, Len(str)))

\* base64_from_string(string); omit_trailing_equals is not looked at.
base64_from_string(str) == b64encode(str)

\* sub_from_tgid(telegram_id)
sub_from_tgid(telegram_id) == base64_from_string(str_id(telegram_id))

\* ensure_2_digits(x)
ensure_2_digits(x) == IF x >= 10 THEN str_int(x) ELSE <<"0">> \o str_int(x)

\* datetime.now(UTC) at the clock value t, seconds since 1970-01-01, within
\* January 1970.
DateTime(t) ==
    [year |-> 1970, month |-> 1, day |-> 1 + (t \div 86400),
     hour |-> (t \div 3600) % 24, minute |-> (t \div 60) % 60]

FixedPrefix == <<"1","1","1","1","1","1","1","1","-","1","1","1","1","-","1","1","1","1","-",
                 "1","1","1","1","-">>

\* get_telegram_uuid with the timestamp prefix whatever `fixed` says.
get_telegram_uuid_timestamped(telegram_id, fixed, t) ==
    str_int(DateTime(t).year) \o ensure_2_digits(DateTime(t).month)
    \o ensure_2_digits(DateTime(t).day) \o <<"-">>
    \o ensure_2_digits(DateTime(t).hour) \o ensure_2_digits(DateTime(t).minute)
    \o <<"-","1","1","1","1","-","1","1","1","1","-">>
    \o Zeros(12 - Len(str_id(telegram_id))) \o str_id(telegram_id)

\* get_telegram_uuid(telegram_id, fixed) called at the clock value t.
get_telegram_uuid(telegram_id, fixed, t) ==
    LET zeros == 12 - Len(str_id(telegram_id))
        resid == Zeros(zeros) \o str_id(telegram_id)
        now_ == DateTime(t)
    IN  IF fixed THEN FixedPrefix \o resid
        ELSE str_int(now_.year) \o ensure_2_digits(now_.month) \o ensure_2_digits(now_.day)
             \o <<"-">> \o ensure_2_digits(now_.hour) \o ensure_2_digits(now_.minute)
             \o <<"-","1","1","1","1","-","1","1","1","1","-">> \o resid

-----------------------------------------------------------------------------
(* The facade's and the endpoint groups' writing operations, run by one     *)
(* task on a connected client (api.py, code/endpoints.py).                  *)

\* The telegram ids the application passes.
TelegramIds == {TgId(0, 7), TgId(0, 105)}

\* The inbound lists of the panel whose production inbounds the cache holds.
FacadePanels ==
    {<<Inbound(2, <<"t","e","s","t","e","r","-","7","7","7">>),
       Inbound(1, <<"t","e","s","t","e","r","-","7","7">>),
       Inbound(12, <<"n","l"," ","T","E","S","T","E","R","-","7","7","7">>),
       Inbound(3, <<"t","e","s","t","e","r","-","7","7","7">>)>>,
     <<Inbound(5, <<"t","e","s","t","e","r","-","7","7","7">>)>>}

\* The answers of the transport to the request of a writing operation.
WriteResponses ==
    [status : {200}, body : {BodyOk, BodyError, BodyLocked}]
    \cup [status : {404}, body : {BodyShort}]
    \cup [status : {500}, body : {BodyLocked}]

\* What the operation did: ev is "start" or "end" of a request made through
\* safe_get or safe_post, with the endpoint, the inbound and the email of
\* its URL or body, the client record of its body, the response returned
\* and the exception raised.
Step(ev, endpoint, inbound, email, data, r, exc) ==
    [ev |-> ev, endpoint |-> endpoint, inbound |-> inbound, email |-> email,
     data |-> data, resp |-> r, exc |-> exc]

\* delete_target with the position in the list taken for the inbound's id.
delete_target_by_position(telegram_id, inbounds, i) ==
    [inbound |-> i, email |-> generate_email_from_tgid_inbid(telegram_id, i)]

\* The i-th pass of the loop of delete_client_by_tgid_all_inbounds: the
\* arguments of delete_client_by_email.
delete_target(telegram_id, inbounds, i) ==
    [inbound |-> inbounds[i].id,
     email |-> generate_email_from_tgid_inbid(telegram_id, inbounds[i].id)]

\* safe_post of an endpoint method, up to the first request of _safe_request.
StartPost ==
    /\ op' = "safe_post"
    /\ resp' = NoResp /\ log' = <<>>
    /\ IF session = 0
       THEN End(Raise("RuntimeError:Session is not initialized")) /\ UNCHANGED attempt
       ELSE NextAttempt(0 - 1)

\* The loop of delete_client_by_tgid_all_inbounds with rs collected so far:
\* the next delete_client_by_email is called, or the list is returned.
DeleteLoop(telegram_id, inbounds, rs, fl) ==
    IF Len(rs) < Len(inbounds)
    THEN LET tgt == delete_target(telegram_id, inbounds, Len(rs) + 1)
         IN  /\ fpc' = "deleting"
             /\ flog' = Append(fl, Step("start", "delClient", tgt.inbound, tgt.email, <<>>,
                                             NoResp, ""))
             /\ StartPost
             /\ UNCHANGED fresult
    ELSE /\ fpc' = "done"
         /\ flog' = fl
         /\ fresult' = Return(rs)
         /\ pc' = "idle"
         /\ UNCHANGED <<op, attempt, resp, log, result>>

\* delete_client_by_tgid_all_inbounds(telegram_id), with the production
\* inbounds in the cache: up to the first await of the loop.
DeleteAllCall(telegram_id) ==
    /\ fpc = "idle" /\ pc = "idle"
    /\ alru_lookup(cache, tasks) = "hit"
    /\ fop' = "delete_client_by_tgid_all_inbounds"
    /\ fargs' = [telegram_id |-> telegram_id,
                 production_inbounds |-> tasks[cache.task].res.value]
    /\ responses' = <<>>
    /\ DeleteLoop(telegram_id, tasks[cache.task].res.value, <<>>, <<>>)
    /\ UNCHANGED <<objvars, sessvars, session_start, cfgvars, now, vin, vout, cachevars>>

\* delete_client_by_email has ended: its exception leaves the operation, or
\* its response is appended and the loop goes on.
DeleteNext ==
    /\ fpc = "deleting" /\ pc = "done"
    /\ LET last == flog[Len(flog)]
       IN  IF result.kind = "raise"
           THEN /\ fpc' = "done"
                /\ fresult' = result
                /\ flog' = Append(flog, Step("end", "delClient", last.inbound, last.email, <<>>,
                                              NoResp, result.exc))
                /\ pc' = "idle"
                /\ UNCHANGED <<responses, op, attempt, resp, log, result>>
           ELSE /\ responses' = Append(responses, resp)
                /\ DeleteLoop(fargs.telegram_id, fargs.production_inbounds,
                              Append(responses, resp),
                              Append(flog, Step("end", "delClient", last.inbound, last.email,
                                                <<>>, resp, "")))
    /\ UNCHANGED <<objvars, sessvars, session_start, cfgvars, now, vin, vout, cachevars,
                   fop, fargs>>

\* The keys a SingleInboundClient and an InboundClients need on the wire
\* (the aliases of their fields without a default).
SingleRequired == {"id", "flow", "email", "totalGB", "subId"}

BulkRequired == {"settings"}

\* The keys of the dicts passed to add_client: one client, a bulk value, {}.
SingleClientDict == <<"id", "flow", "email", "totalGB", "subId">>

BulkDict == <<"id", "settings">>

ClientDicts == {SingleClientDict, BulkDict, <<>>}

\* str(d) of a dict d with these keys, token by token: Python writes the
\* keys in single quotes.
RECURSIVE py_items(_)
py_items(keys) ==
    IF keys = <<>> THEN <<>>
    ELSE <<"'", Head(keys), "'", ":", "...">>
         \o (IF Len(keys) > 1 THEN <<",">> ELSE <<>>)
         \o py_items(Tail(keys))

py_str(keys) == <<"{">> \o py_items(keys) \o <<"}">>

\* cls.model_validate_json(text) for a model class that needs the keys req:
\* JSON has no single-quoted strings.
model_validate_json(text, req) ==
    IF \E i \in 1..Len(text) : text[i] = "'" THEN Raise("ValidationError")
    ELSE IF req \subseteq ({text[i] : i \in 1..Len(text)} \ {"{", "}", ":", ",", "...", "\""})
         THEN Return(JNull)
    ELSE Raise("ValidationError")

\* The clients passed to add_client: what they are, the keys of a dict, the
\* parent_id of an InboundClients.
AddClients ==
    {[kind |-> "SingleInboundClient", keys |-> SingleClientDict, parent_id |-> None]}
    \cup [kind : {"dict"}, keys : ClientDicts, parent_id : {None}]
    \cup [kind : {"InboundClients"}, keys : {BulkDict}, parent_id : {None, 5}]
    \cup {[kind |-> "str", keys |-> <<>>, parent_id |-> None]}

\* The inbound_id arguments.
InboundIds == {None, 3}

\* The test `if inbound_id:`.
TruthyId(inbound_id) == inbound_id # None /\ inbound_id # 0

NoParent == "ValueError:A single client was provided to be added but no parent inbound id"

\* add_client(client, inbound_id) up to its request: the parent id of the
\* InboundClients it sends (None: the id is left out of the body), or the
\* exception it raises.
add_client_step(client, inbound_id) ==
    CASE client.kind = "dict" ->
            IF model_validate_json(py_str(client.keys), BulkRequired).kind = "return"
            THEN [do |-> "send", exc |-> "", parent |-> client.parent_id]
            ELSE IF model_validate_json(py_str(client.keys), SingleRequired).kind = "raise"
            THEN [do |-> "raise", exc |-> "ValidationError", parent |-> None]
            ELSE IF TruthyId(inbound_id)
            THEN [do |-> "send", exc |-> "", parent |-> inbound_id]
            ELSE [do |-> "raise", exc |-> NoParent, parent |-> None]
      [] client.kind = "SingleInboundClient" ->
            [do |-> "send", exc |-> "", parent |-> inbound_id]
      [] client.kind = "InboundClients" ->
            [do |-> "send", exc |-> "",
             parent |-> IF TruthyId(inbound_id) THEN inbound_id ELSE client.parent_id]
      [] OTHER -> [do |-> "raise", exc |-> "TypeError", parent |-> None]

\* final.model_dump(by_alias=True) of an InboundClients: its keys; the id is
\* excluded when parent_id is None.
bulk_keys(parent) == IF parent = None THEN <<"settings">> ELSE <<"id", "settings">>

\* Clients.add_client(client, inbound_id), up to its request.
AddCall(client, inbound_id) ==
    /\ fpc = "idle" /\ pc = "idle"
    /\ fop' = "add_client"
    /\ fargs' = [client |-> client, inbound_id |-> inbound_id]
    /\ responses' = <<>>
    /\ LET d == add_client_step(client, inbound_id)
       IN  IF d.do = "raise"
           THEN /\ fpc' = "done"
                /\ fresult' = Raise(d.exc)
                /\ flog' = <<>>
                /\ UNCHANGED callvars
           ELSE /\ fpc' = "posting"
                /\ flog' = <<Step("start", "addClient", d.parent, <<>>, bulk_keys(d.parent),
                                  NoResp, "")>>
                /\ StartPost
                /\ UNCHANGED fresult
    /\ UNCHANGED <<objvars, sessvars, session_start, cfgvars, now, vin, vout, cachevars>>

\* The safe_post of add_client or of _request_update_client has ended: its
\* response is returned, its exception goes on to the caller.
PostNext ==
    /\ fpc = "posting" /\ pc = "done"
    /\ fpc' = "done"
    /\ fresult' = IF result.kind = "raise" THEN result ELSE Return(resp)
    /\ LET last == flog[Len(flog)]
       IN  flog' = Append(flog, Step("end", last.endpoint, last.inbound, last.email, last.data,
                                     resp, result.exc))
    /\ pc' = "idle"
    /\ UNCHANGED <<objvars, sessvars, session_start, cfgvars, now, vin, vout, cachevars,
                   fop, fargs, responses, op, attempt, resp, log, result>>

\* The application takes the outcome of the operation; its task is over.
FacadeFinish ==
    /\ fpc = "done"
    /\ fpc' = "idle" /\ fop' = "" /\ fargs' = <<>> /\ responses' = <<>> /\ flog' = <<>>
    /\ fresult' = NoResult
    /\ op' = "" /\ attempt' = 0 /\ resp' = NoResp /\ log' = <<>> /\ result' = NoResult
    /\ UNCHANGED <<objvars, sessvars, session_start, cfgvars, now, pc, vin, vout, cachevars>>

-----------------------------------------------------------------------------
(* Clients.update_single_client (code/endpoints.py) on SingleInboundClient  *)
(* objects (code/models.py).                                                *)

\* Python values of the fields of a client: every value is a record of one
\* shape; t is "none", "str", "int", "bool" or "obj".
PNone == [t |-> "none", s |-> "", n |-> 0, b |-> FALSE]

PStr(x) == [t |-> "str", s |-> x, n |-> 0, b |-> FALSE]

PInt(x) == [t |-> "int", s |-> "", n |-> x, b |-> FALSE]

PBool(x) == [t |-> "bool", s |-> "", n |-> 0, b |-> x]

PObj == [t |-> "obj", s |-> "", n |-> 0, b |-> FALSE]

\* The fields of SingleInboundClient.
Fields == {"uuid", "security", "password", "flow", "email", "limit_ip", "limit_gb",
           "expiry_time", "enable", "tg_id", "subscription_id", "comment", "created_at",
           "updated_at"}

\* The alias of a field, its name on the wire.
Alias(f) ==
    CASE f = "uuid" -> "id"
      [] f = "limit_ip" -> "limitIp"
      [] f = "limit_gb" -> "totalGB"
      [] f = "expiry_time" -> "expiryTime"
      [] f = "tg_id" -> "tgId"
      [] f = "subscription_id" -> "subId"
      [] OTHER -> f

Aliases == {Alias(f) : f \in Fields}

FieldOf(a) == CHOOSE f \in Fields : Alias(f) = a

\* The SingleInboundClient objects passed as existing_client.
ExistingClients ==
    {[uuid |-> PStr("11111111-1111-1111-1111-000000000007"), security |-> PStr(""),
      password |-> PStr(""), flow |-> PStr("xtls-rprx-vision"), email |-> PStr("TG7IB3"),
      limit_ip |-> PInt(20), limit_gb |-> PInt(0), expiry_time |-> PInt(0),
      enable |-> PBool(TRUE), tg_id |-> PStr(""), subscription_id |-> PStr("Nw=="),
      comment |-> PStr(""), created_at |-> PInt(0), updated_at |-> PInt(0)],
     [uuid |-> PStr("0213c327-c619-4998-9bb3-adaced38c68b"), security |-> PStr("auto"),
      password |-> PStr("secret"), flow |-> PStr(""), email |-> PStr("someone"),
      limit_ip |-> PInt(2), limit_gb |-> PInt(10), expiry_time |-> PInt(5),
      enable |-> PBool(FALSE), tg_id |-> PInt(7), subscription_id |-> PStr("86xi6py5uwsgokh1"),
      comment |-> PStr("vip"), created_at |-> PInt(1), updated_at |-> PInt(1)]}

\* The keyword arguments of update_single_client: each is None or a value,
\* empty, zero and False among the values.
Overrides ==
    [security : {PNone, PStr("none")}, password : {PNone, PStr("")},
     flow : {PNone, PStr("")}, email : {PNone, PStr("TG7IB3")},
     limit_ip : {PNone, PInt(0)}, limit_gb : {PNone, PInt(50)},
     expiry_time : {PNone, PInt(0)}, enable : {PNone, PBool(FALSE)},
     sub_id : {PNone, PStr("Nw")}, comment : {PNone, PStr("paid")}]

\* locals() of update_single_client at its first statement.
update_locals(inbound_id, ov) ==
    <<<<"self", PObj>>, <<"existing_client", PObj>>, <<"inbound_id", inbound_id>>,
      <<"security", ov.security>>, <<"password", ov.password>>, <<"flow", ov.flow>>,
      <<"email", ov.email>>, <<"limit_ip", ov.limit_ip>>, <<"limit_gb", ov.limit_gb>>,
      <<"expiry_time", ov.expiry_time>>, <<"enable", ov.enable>>, <<"sub_id", ov.sub_id>>,
      <<"comment", ov.comment>>>>

\* d[k] = v on a dict.
SetItem(d, k, v) ==
    IF HasKey(d, k) THEN [i \in 1..Len(d) |-> IF d[i][1] = k THEN <<k, v>> ELSE d[i]]
    ELSE Append(d, <<k, v>>)

\* d without the key k.
DelItem(d, k) == SelectSeq(d, LAMBDA kv : kv[1] # k)

\* update_changes without the renaming of sub_id.
update_changes_no_rename(inbound_id, ov, t) ==
    SetItem(SelectSeq(update_locals(inbound_id, ov),
                      LAMBDA kv : kv[1] # "self" /\ kv[1] # "existing_client" /\ kv[2] # PNone),
            "updated_at", PInt(t))

\* The dict `changes` of update_single_client at the time t.
update_changes(inbound_id, ov, t) ==
    LET collected == SelectSeq(update_locals(inbound_id, ov),
                               LAMBDA kv : /\ kv[1] # "self" /\ kv[1] # "existing_client"
                                           /\ kv[2] # PNone)
        renamed == IF HasKey(collected, "sub_id")
                   THEN SetItem(DelItem(collected, "sub_id"), "subscription_id",
                                Get(collected, "sub_id"))
                   ELSE collected
    IN  SetItem(renamed, "updated_at", PInt(t))

\* obj.model_copy(update=changes): a new object whose __dict__ is that of obj
\* updated with changes, whatever their keys.
model_copy(obj, changes) ==
    [k \in DOMAIN obj \cup {changes[i][1] : i \in 1..Len(changes)} |->
        IF HasKey(changes, k) THEN Get(changes, k) ELSE obj[k]]

\* model_dump(by_alias=True) of a SingleInboundClient: its fields under their
\* aliases; attributes that are no fields are left out.
client_dump(obj) == [a \in Aliases |-> obj[FieldOf(a)]]

\* Clients.update_single_client(existing_client, inbound_id, **overrides), up
\* to the request of _request_update_client.  InboundClients(parent_id=...)
\* does not set the field, whose alias is "id": the body carries no inbound.
UpdateCall ==
    /\ fpc = "idle" /\ pc = "idle" /\ fop = ""
    /\ fop' = "update_single_client"
    /\ LET updated == model_copy(fargs.existing_client,
                                 update_changes(fargs.inbound_id, fargs.overrides, now))
       IN  /\ fargs' = [fargs EXCEPT !.called_at = now]
           /\ IF fargs.inbound_id = PNone
              THEN /\ fpc' = "done"
                   /\ fresult' = Raise("ValueError:Provide a parent inbound ID")
                   /\ UNCHANGED <<flog, callvars>>
              ELSE /\ fpc' = "posting"
                   /\ flog' = <<Step("start", "updateClient", None, updated.uuid.s,
                                     client_dump(updated), NoResp, "")>>
                   /\ StartPost
                   /\ UNCHANGED fresult
    /\ UNCHANGED <<objvars, sessvars, session_start, cfgvars, now, vin, vout, cachevars,
                   responses>>

\* The application is about to call update_single_client, with any of the
\* clients and any combination of overrides, on a client that is connected
\* and logged in and whose max_retries it has set to 2.
InitUpdate ==
    /\ vin = <<>> /\ vout = "unused"
    /\ instance = 1 /\ objects = 1 /\ refs = {1}
    /\ session = 1 /\ sessions = 1 /\ closed = {}
    /\ session_start = 0
    /\ session_duration = 1
    /\ max_retries = 2
    /\ now \in {1, MaxTime}
    /\ pc = "idle" /\ op = "" /\ attempt = 0 /\ resp = NoResp /\ log = <<>>
    /\ result = NoResult
    /\ panel = <<>> /\ cache = NoEntry /\ tasks = <<>> /\ bg = NoBg /\ callers = <<>>
    /\ epoch = 0 /\ returns = {}
    /\ fpc = "idle" /\ fop = ""
    /\ fargs \in [existing_client : ExistingClients, passed : ExistingClients,
                  inbound_id : {PNone, PInt(3)}, overrides : Overrides, called_at : {None}]
    /\ fargs.passed = fargs.existing_client
    /\ responses = <<>> /\ flog = <<>>
    /\ fresult = NoResult

NextUpdate ==
    \/ UpdateCall
    \/ PostNext
    \/ \E r \in WriteResponses : HttpResponse(r)
    \/ \E r \in LoginResponses : LoginResponse(r)
    \/ SleepDone

\* One call of update_single_client.
SpecUpdate == InitUpdate /\ [][NextUpdate]_vars

-----------------------------------------------------------------------------
(* XUIClient.update_client_by_tgid (api.py).                                *)

\* existing_client.model_dump() of the ClientStats that get_client_with_email
\* returned: the fields of ClientStats under their names, with values of
\* their types.
ClientStatsDump ==
    [id |-> PInt(1), inboundId |-> PInt(3), enable |-> PBool(TRUE), email |-> PStr("email"),
     uuid |-> PStr("uuid"), subId |-> PStr("sub"), up |-> PInt(0), down |-> PInt(0),
     allTime |-> PInt(0), expiryTime |-> PInt(0), total |-> PInt(0), reset |-> PInt(0),
     lastOnline |-> PInt(0)]

\* The types of value that validation takes for the field with the alias a.
FieldTypes(a) ==
    CASE a \in {"limitIp", "totalGB", "expiryTime", "created_at", "updated_at"} -> {"int"}
      [] a = "enable" -> {"bool"}
      [] a = "tgId" -> {"int", "str"}
      [] OTHER -> {"str"}

\* The value of a field left out of the validated dict, at the time t.
DefaultOf(f, t) ==
    CASE f = "limit_ip" -> PInt(20)
      [] f = "expiry_time" -> PInt(0)
      [] f = "enable" -> PBool(TRUE)
      [] f \in {"created_at", "updated_at"} -> PInt(t)
      [] OTHER -> PStr("")

\* SingleInboundClient.model_validate(d) at the time t: the fields are read
\* under their aliases; a required one that is missing or a value of another
\* type than the field's is a ValidationError.
validate_single(d, t) ==
    IF /\ SingleRequired \subseteq DOMAIN d
       /\ \A a \in Aliases \cap DOMAIN d : d[a].t \in FieldTypes(a)
    THEN Return([f \in Fields |-> IF Alias(f) \in DOMAIN d THEN d[Alias(f)]
                                  ELSE DefaultOf(f, t)])
    ELSE Raise("ValidationError")

\* The keyword arguments of update_client_by_tgid, passed on to
\* update_single_client: none, or a comment.
FacadeOverrides == {ov \in Overrides : \A k \in DOMAIN ov \ {"comment"} : ov[k] = PNone}

\* A read method of an endpoint group, up to the first request of
\* _safe_request.
StartGet(m) ==
    /\ op' = m
    /\ resp' = NoResp /\ log' = <<>>
    /\ IF session = 0
       THEN End(Raise("RuntimeError:Session is not initialized")) /\ UNCHANGED attempt
       ELSE NextAttempt(0 - 1)

\* update_client_by_tgid(telegram_id, inbound_id, **overrides), up to the
\* request of get_client_with_email.
UpdateByTgidCall(telegram_id, inbound_id, ov) ==
    /\ fpc = "idle" /\ pc = "idle"
    /\ fop' = "update_client_by_tgid"
    /\ fargs' = [telegram_id |-> telegram_id, inbound_id |-> inbound_id, overrides |-> ov]
    /\ responses' = <<>>
    /\ fpc' = "getting"
    /\ flog' = <<Step("start", "getClientTraffics", inbound_id,
                      generate_email_from_tgid_inbid(telegram_id, inbound_id), <<>>,
                      NoResp, "")>>
    /\ StartGet("get_client_with_email")
    /\ UNCHANGED <<objvars, sessvars, session_start, cfgvars, now, vin, vout, cachevars,
                   fresult>>

\* get_client_with_email has ended: its exception leaves the operation; its
\* ClientStats is dumped and validated as a SingleInboundClient, and
\* update_single_client is called on the result, up to its request.
UpdateByTgidNext ==
    /\ fpc = "getting" /\ pc = "done"
    /\ LET last == flog[Len(flog)]
           ended == Append(flog, Step("end", last.endpoint, last.inbound, last.email, <<>>,
                                      resp, result.exc))
           existing == validate_single(ClientStatsDump, now)
       IN  IF result.kind = "raise"
           THEN /\ fpc' = "done" /\ fresult' = result /\ flog' = ended /\ pc' = "idle"
                /\ UNCHANGED <<op, attempt, resp, log, result>>
           ELSE IF existing.kind = "raise"
           THEN /\ fpc' = "done" /\ fresult' = existing /\ flog' = ended /\ pc' = "idle"
                /\ UNCHANGED <<op, attempt, resp, log, result>>
           ELSE LET updated == model_copy(existing.value,
                                          update_changes(PInt(fargs.inbound_id),
                                                         fargs.overrides, now))
                IN  /\ fpc' = "posting"
                    /\ flog' = Append(ended, Step("start", "updateClient", None, updated.uuid.s,
                                                  client_dump(updated), NoResp, ""))
                    /\ StartPost
                    /\ UNCHANGED fresult
    /\ UNCHANGED <<objvars, sessvars, session_start, cfgvars, now, vin, vout, cachevars,
                   fop, fargs, responses>>

\* Inside `async with`, after the first refill of the cache: the client is
\* connected, logged in or not, and the cache holds the production inbounds
\* of the panel.
InitFacade ==
    /\ vin = <<>> /\ vout = "unused"
    /\ instance = 1 /\ objects = 1 /\ refs = {1}
    /\ session = 1 /\ sessions = 1 /\ closed = {}
    /\ session_start \in {None, 0}
    /\ session_duration \in Durations
    /\ max_retries \in {2, DEFAULT_MAX_RETRIES}
    /\ now = 0
    /\ pc = "idle" /\ op = "" /\ attempt = 0 /\ resp = NoResp /\ log = <<>>
    /\ result = NoResult
    /\ panel \in FacadePanels
    /\ cache = [state |-> "set", task |-> 1]
    /\ tasks = <<[state |-> "done", epoch |-> 1, res |-> production_inbounds(panel)]>>
    /\ bg = [pc |-> "sleep", task |-> 1]
    /\ callers = <<>>
    /\ epoch = 1
    /\ returns = {[epoch |-> 1, list |-> production_inbounds(panel).value]}
    /\ fpc = "idle" /\ fop = "" /\ fargs = <<>> /\ responses = <<>> /\ flog = <<>>
    /\ fresult = NoResult

NextFacade ==
    \/ \E t \in TelegramIds : DeleteAllCall(t)
    \/ DeleteNext
    \/ \E client \in AddClients, i \in InboundIds : AddCall(client, i)
    \/ PostNext
    \/ \E t \in TelegramIds, i \in InboundIds \ {None}, ov \in FacadeOverrides :
          UpdateByTgidCall(t, i, ov)
    \/ UpdateByTgidNext
    \/ FacadeFinish
    \/ \E r \in WriteResponses \cup {[status |-> 200, body |-> BodyOkStats]} : HttpResponse(r)
    \/ \E r \in LoginResponses : LoginResponse(r)
    \/ SleepDone
    \/ Tick

\* One application task running the facade's writing operations, one after
\* the other.
SpecFacade == InitFacade /\ [][NextFacade]_vars

-----------------------------------------------------------------------------
(* XUIClient.create_and_add_prod_client (api.py) with the identifier        *)
(* helpers of code/util.py.                                                 *)

\* The telegram ids clients are created for: of 1, 2, 12 and 13 digits.
CreateIds == {TgId(0, 1), TgId(0, 11), TgId(123, 456789012), TgId(1234, 567890123)}

\* The panel's inbounds: the production inbounds 2 and 12, and inbound 7.
CreatePanels ==
    {<<Inbound(2, <<"t","e","s","t","e","r","-","7","7","7">>),
       Inbound(7, <<"t","e","s","t">>),
       Inbound(12, <<"x"," ","T","e","s","t","e","r","-","7","7","7">>)>>}

\* The answers of the transport to addClient: done, or a server error.
CreateResponses == {[status |-> 200, body |-> BodyOk], [status |-> 500, body |-> BodyLocked]}

\* SingleInboundClient.model_construct(...) of create_and_add_prod_client for
\* the inbound inbound_id at the clock value t, by the aliases of its fields;
\* comment_at is the time written into the comment.
prod_client(telegram_id, inbound_id, t) ==
    [id |-> get_telegram_uuid(telegram_id, TRUE, t),
     flow |-> <<>>,
     email |-> generate_email_from_tgid_inbid(telegram_id, inbound_id),
     totalGB |-> 0,
     enable |-> TRUE,
     subId |-> sub_from_tgid(telegram_id),
     comment_at |-> t]

\* The loop of create_and_add_prod_client with rs collected so far: the
\* client of the next inbound is built and handed to add_client, which posts
\* it (a SingleInboundClient with its inbound's id is never refused), or the
\* list is returned.
CreateLoop(telegram_id, inbounds, rs, fl) ==
    IF Len(rs) < Len(inbounds)
    THEN LET inb == inbounds[Len(rs) + 1]
             client == prod_client(telegram_id, inb.id, now)
         IN  /\ fpc' = "creating"
             /\ flog' = Append(fl, Step("start", "addClient", inb.id, client.email,
                                        [telegram_id |-> telegram_id, client |-> client],
                                        NoResp, ""))
             /\ StartPost
             /\ UNCHANGED fresult
    ELSE /\ fpc' = "done"
         /\ flog' = fl
         /\ fresult' = Return(rs)
         /\ pc' = "idle"
         /\ UNCHANGED <<op, attempt, resp, log, result>>

\* The application task c calls create_and_add_prod_client(telegram_id), the
\* call of the task before it being over; the production inbounds are in the
\* cache. flog keeps the clients submitted by the earlier call.
CreateCall(c, telegram_id) ==
    /\ callers[c].pc = "idle" /\ fpc \in {"idle", "done"} /\ pc = "idle"
    /\ alru_lookup(cache, tasks) = "hit"
    /\ callers' = [callers EXCEPT ![c].pc = "called"]
    /\ fop' = "create_and_add_prod_client"
    /\ fargs' = [telegram_id |-> telegram_id,
                 production_inbounds |-> tasks[cache.task].res.value]
    /\ responses' = <<>>
    /\ CreateLoop(telegram_id, tasks[cache.task].res.value, <<>>, flog)
    /\ UNCHANGED <<objvars, sessvars, session_start, cfgvars, now, vin, vout,
                   panel, cache, tasks, bg, epoch, returns>>

\* add_client has ended: its exception leaves the operation, or its response
\* is appended and the loop goes on.
CreateNext ==
    /\ fpc = "creating" /\ pc = "done"
    /\ IF result.kind = "raise"
       THEN /\ fpc' = "done"
            /\ fresult' = result
            /\ pc' = "idle"
            /\ UNCHANGED <<responses, flog, op, attempt, resp, log, result>>
       ELSE /\ responses' = Append(responses, resp)
            /\ CreateLoop(fargs.telegram_id, fargs.production_inbounds,
                          Append(responses, resp), flog)
    /\ UNCHANGED <<objvars, sessvars, session_start, cfgvars, now, vin, vout, cachevars,
                   fop, fargs>>

\* A minute of the clock passes.
MinutePasses ==
    /\ now < 60 * MaxTime
    /\ now' = now + 60
    /\ UNCHANGED <<objvars, sessvars, session_start, cfgvars, callvars, vin, vout, facadevars>>

\* The client is connected and logged in, the cache holds the production
\* inbounds, the background task sleeps, the application tasks have not
\* called yet.
InitCreate ==
    /\ vin = <<>> /\ vout = "unused"
    /\ instance = 1 /\ objects = 1 /\ refs = {1}
    /\ session = 1 /\ sessions = 1 /\ closed = {}
    /\ session_start = 0
    /\ session_duration \in Durations
    /\ max_retries = DEFAULT_MAX_RETRIES
    /\ now = 0
    /\ pc = "idle" /\ op = "" /\ attempt = 0 /\ resp = NoResp /\ log = <<>>
    /\ result = NoResult
    /\ panel \in CreatePanels
    /\ cache = [state |-> "set", task |-> 1]
    /\ tasks = <<[state |-> "done", epoch |-> 1, res |-> production_inbounds(panel)]>>
    /\ bg = [pc |-> "sleep", task |-> 1]
    /\ callers = [c \in Callers |-> NoCall]
    /\ epoch = 1
    /\ returns = {[epoch |-> 1, list |-> production_inbounds(panel).value]}
    /\ fpc = "idle" /\ fop = "" /\ fargs = <<>> /\ responses = <<>> /\ flog = <<>>
    /\ fresult = NoResult

NextCreate ==
    \/ \E c \in Callers, t \in CreateIds : CreateCall(c, t)
    \/ CreateNext
    \/ \E r \in CreateResponses : HttpResponse(r)
    \/ MinutePasses

\* Application tasks creating production clients, one call after the other,
\* while the clock goes on.
SpecCreate == InitCreate /\ [][NextCreate]_vars


-----------------------------------------------------------------------------
(* Inbound (code/models.py): the fields settings, streamSettings and        *)
(* sniffing, which the wire carries as JSON documents inside strings.       *)

\* A decoded JSON document as Python holds it. Every value is a record of
\* one shape: t is "null", "bool", "int", "str", "list" or "dict", b the
\* boolean, n the integer, s the characters of a string, items the entries
\* of a list or dict in order, each with its key k (no characters in a list)
\* and its value v.
VNull == [t |-> "null", b |-> FALSE, n |-> 0, s |-> <<>>, items |-> <<>>]

VBool(x) == [t |-> "bool", b |-> x, n |-> 0, s |-> <<>>, items |-> <<>>]

VInt(x) == [t |-> "int", b |-> FALSE, n |-> x, s |-> <<>>, items |-> <<>>]

VStr(chars) == [t |-> "str", b |-> FALSE, n |-> 0, s |-> chars, items |-> <<>>]

VList(items) == [t |-> "list", b |-> FALSE, n |-> 0, s |-> <<>>, items |-> items]

VDict(items) == [t |-> "dict", b |-> FALSE, n |-> 0, s |-> <<>>, items |-> items]

Item(k, v) == [k |-> k, v |-> v]

\* The character of str at i, or "" past its end.
At(str, i) == IF i >= 1 /\ i <= Len(str) THEN str[i] ELSE ""

\* What a step of the decoder gives: the value and the place after it, or
\* ok = FALSE for json.JSONDecodeError.
Parsed(v, i) == [ok |-> TRUE, v |-> v, i |-> i]

NotJson == [ok |-> FALSE, v |-> VNull, i |-> 0]

\* The decoder's skipping of white space from i on.
RECURSIVE skip_ws(_, _)
skip_ws(str, i) == IF At(str, i) = " " THEN skip_ws(str, i + 1) ELSE i

\* The decoder inside a string literal, after its opening quote.
RECURSIVE scan_string(_, _, _)
scan_string(str, i, acc) ==
    CASE At(str, i) = "" -> NotJson
      [] At(str, i) = "\"" -> Parsed(VStr(acc), i + 1)
      [] At(str, i) = "\\" ->
            IF At(str, i + 1) \in {"\"", "\\", "/"}
            THEN scan_string(str, i + 2, Append(acc, str[i + 1]))
            ELSE NotJson
      [] OTHER -> scan_string(str, i + 1, Append(acc, str[i]))

IsDigit(c) == \E d \in 1..10 : Digits[d] = c

DigitValue(c) == (CHOOSE d \in 1..10 : Digits[d] = c) - 1

\* The digits of an integer literal from i on, acc being the value so far.
RECURSIVE scan_digits(_, _, _)
scan_digits(str, i, acc) ==
    IF IsDigit(At(str, i)) THEN scan_digits(str, i + 1, acc * 10 + DigitValue(str[i]))
    ELSE Parsed(VInt(acc), i)

\* An integer literal at i: an optional minus sign, then 0 or digits that
\* do not start with 0. Fractions and exponents are not decoded.
scan_number(str, i) ==
    LET neg == At(str, i) = "-"
        j == IF neg THEN i + 1 ELSE i
        r == IF At(str, j) = "0" THEN Parsed(VInt(0), j + 1) ELSE scan_digits(str, j, 0)
    IN  IF ~IsDigit(At(str, j)) \/ At(str, r.i) \in {".", "e", "E"} THEN NotJson
        ELSE IF neg THEN Parsed(VInt(0 - r.v.n), r.i) ELSE r

\* Whether the characters of word stand in str at i.
StartsWith(str, i, word) ==
    i + Len(word) - 1 <= Len(str) /\ SubSeq(str, i, i + Len(word) - 1) = word

\* d[k] = v of the decoder's dict: a key met again keeps its place and takes
\* the later value.
PutItem(items, k, v) ==
    IF \E j \in 1..Len(items) : items[j].k = k
    THEN [j \in 1..Len(items) |-> IF items[j].k = k THEN Item(k, v) ELSE items[j]]
    ELSE Append(items, Item(k, v))

RECURSIVE scan_value(_, _), scan_members(_, _, _), scan_elements(_, _, _)

\* The decoder on the value that starts at i.
scan_value(str, i) ==
    CASE At(str, i) = "\"" -> scan_string(str, i + 1, <<>>)
      [] At(str, i) = "{" ->
            IF At(str, skip_ws(str, i + 1)) = "}"
            THEN Parsed(VDict(<<>>), skip_ws(str, i + 1) + 1)
            ELSE scan_members(str, skip_ws(str, i + 1), <<>>)
      [] At(str, i) = "[" ->
            IF At(str, skip_ws(str, i + 1)) = "]"
            THEN Parsed(VList(<<>>), skip_ws(str, i + 1) + 1)
            ELSE scan_elements(str, skip_ws(str, i + 1), <<>>)
      [] StartsWith(str, i, <<"t","r","u","e">>) -> Parsed(VBool(TRUE), i + 4)
      [] StartsWith(str, i, <<"f","a","l","s","e">>) -> Parsed(VBool(FALSE), i + 5)
      [] StartsWith(str, i, <<"n","u","l","l">>) -> Parsed(VNull, i + 4)
      [] OTHER -> scan_number(str, i)

\* The decoder on the members of an object from i on: "key" : value, then
\* a comma and the next member, or the closing brace.
scan_members(str, i, acc) ==
    IF At(str, i) # "\"" THEN NotJson
    ELSE LET key == scan_string(str, i + 1, <<>>)
         IN  IF ~key.ok \/ At(str, skip_ws(str, key.i)) # ":" THEN NotJson
             ELSE LET val == scan_value(str, skip_ws(str, skip_ws(str, key.i) + 1))
                  IN  IF ~val.ok THEN NotJson
                      ELSE LET j == skip_ws(str, val.i)
                               items == PutItem(acc, key.v.s, val.v)
                           IN  CASE At(str, j) = "}" -> Parsed(VDict(items), j + 1)
                                 [] At(str, j) = "," ->
                                       scan_members(str, skip_ws(str, j + 1), items)
                                 [] OTHER -> NotJson

\* The decoder on the elements of an array from i on.
scan_elements(str, i, acc) ==
    LET val == scan_value(str, i)
    IN  IF ~val.ok THEN NotJson
        ELSE LET j == skip_ws(str, val.i)
                 items == Append(acc, Item(<<>>, val.v))
             IN  CASE At(str, j) = "]" -> Parsed(VList(items), j + 1)
                   [] At(str, j) = "," -> scan_elements(str, skip_ws(str, j + 1), items)
                   [] OTHER -> NotJson

\* json.loads(str): the document, with nothing but white space around it.
json_loads(str) ==
    LET r == scan_value(str, skip_ws(str, 1))
    IN  IF r.ok /\ skip_ws(str, r.i) = Len(str) + 1 THEN r ELSE NotJson

\* The encoder on the characters of a string, without any escaping.
escape_nothing(chars, i) == chars

\* The encoder on the characters of a string from the i-th on: a quote and
\* a backslash get a backslash in front.
RECURSIVE escape(_, _)
escape(chars, i) ==
    IF i > Len(chars) THEN <<>>
    ELSE (IF chars[i] \in {"\"", "\\"} THEN <<"\\", chars[i]>> ELSE <<chars[i]>>)
         \o escape(chars, i + 1)

Quoted(chars) == <<"\"">> \o escape(chars, 1) \o <<"\"">>

RECURSIVE json_dumps(_), dumps_items(_, _, _)

\* json.dumps(v, ensure_ascii=False): ", " between entries, ": " after keys.
json_dumps(v) ==
    CASE v.t = "null" -> <<"n","u","l","l">>
      [] v.t = "bool" -> IF v.b THEN <<"t","r","u","e">> ELSE <<"f","a","l","s","e">>
      [] v.t = "int" -> str_int(v.n)
      [] v.t = "str" -> Quoted(v.s)
      [] v.t = "list" -> <<"[">> \o dumps_items(v.items, 1, FALSE) \o <<"]">>
      [] OTHER -> <<"{">> \o dumps_items(v.items, 1, TRUE) \o <<"}">>

\* The encoder on the entries of a list or dict from the i-th on.
dumps_items(items, i, keyed) ==
    IF i > Len(items) THEN <<>>
    ELSE (IF i > 1 THEN <<",", " ">> ELSE <<>>)
         \o (IF keyed THEN Quoted(items[i].k) \o <<":", " ">> ELSE <<>>)
         \o json_dumps(items[i].v)
         \o dumps_items(items, i + 1, keyed)

\* Inbound.parse_json_fields(value) on a string of the wire.
parse_json_fields(value) ==
    IF value = <<>> THEN Parsed(VStr(<<>>), 0)
    ELSE json_loads(value)

\* Inbound.stringify_json_fields(value)
stringify_json_fields(value) ==
    IF value = VStr(<<>>) THEN <<>>
    ELSE json_dumps(value)

\* The three fields of an Inbound that go through these two methods.
JsonFields == {"settings", "streamSettings", "sniffing"}

\* Strings of the wire: no document, documents in several spellings (white
\* space, a repeated key, escapes, nesting), and strings that are no JSON.
WireStrings ==
    {<<>>,
     <<"{","}">>,
     <<"{","\"","a","\"",":"," ","1","}">>,
     <<"{"," ","\"","a","\""," ",":","1"," ",",","\"","b","\"",":","[","t","r","u","e",",","n","u","l","l","]"," ","}">>,
     <<"{","\"","c","l","i","e","n","t","s","\"",":"," ","[","{","\"","i","d","\"",":"," ","\"","u","1","\"",","," ","\"","e","m","a","i","l","\"",":"," ","\"","e","\"","}","]",","," ","\"","n","\"",":"," ","-","0","}">>,
     <<"{","\"","a","\"",":"," ","1",","," ","\"","a","\"",":"," ","2","}">>,
     <<"{","\"","q","\"",":"," ","\"","x","\\","\"","y","\\","\\","z","\"","}">>,
     <<"[","]">>,
     <<"\"","\"">>,
     <<"{","\"","a","\"",":"," ","{","\"","b","\"",":"," ","{","\"","c","\"",":"," ","[","1","0",","," ","-","2","5",","," ","f","a","l","s","e","]","}","}","}">>,
     <<"{">>,
     <<"t","r","u">>,
     <<"{","\"","a","\"",":"," ","1","}"," ","x">>,
     <<"{","'","a","'",":"," ","1","}">>}

\* Inbound(**obj) on what the panel sent: the validator runs on the three
\* fields; a document that does not decode is a ValidationError.
InboundValidate ==
    /\ fpc \in {"idle", "dumped"}
    /\ LET wire == IF fpc = "idle" THEN fargs ELSE flog[Len(flog)].fields
           parsed == [f \in JsonFields |-> parse_json_fields(wire[f])]
       IN  IF \A f \in JsonFields : parsed[f].ok
           THEN /\ fpc' = IF fpc = "idle" THEN "validated" ELSE "reloaded"
                /\ flog' = Append(flog, [ev |-> "validate",
                                         fields |-> [f \in JsonFields |-> parsed[f].v]])
                /\ UNCHANGED fresult
           ELSE /\ fpc' = "done"
                /\ fresult' = Raise("ValidationError")
                /\ UNCHANGED flog
    /\ fop' = "Inbound"
    /\ UNCHANGED <<objvars, sessvars, session_start, cfgvars, now, callvars, vin, vout,
                   cachevars, fargs, responses>>

\* model_dump() of the Inbound: the serializer runs on the three fields.
InboundDump ==
    /\ fpc = "validated"
    /\ fpc' = "dumped"
    /\ flog' = Append(flog, [ev |-> "dump",
                             fields |-> [f \in JsonFields |->
                                            stringify_json_fields(flog[Len(flog)].fields[f])]])
    /\ UNCHANGED <<objvars, sessvars, session_start, cfgvars, now, callvars, vin, vout,
                   cachevars, fop, fargs, responses, fresult>>

\* The panel has sent an inbound with any of the strings in its three fields.
InitInbound ==
    /\ vin = <<>> /\ vout = "unused"
    /\ instance = 0 /\ objects = 0 /\ refs = {}
    /\ session = 0 /\ sessions = 0 /\ closed = {}
    /\ session_start = None
    /\ session_duration = 0
    /\ max_retries = 0
    /\ now = 0
    /\ pc = "idle" /\ op = "" /\ attempt = 0 /\ resp = NoResp /\ log = <<>>
    /\ result = NoResult
    /\ panel = <<>> /\ cache = NoEntry /\ tasks = <<>> /\ bg = NoBg /\ callers = <<>>
    /\ epoch = 0 /\ returns = {}
    /\ fpc = "idle" /\ fop = ""
    /\ fargs \in [JsonFields -> WireStrings]
    /\ responses = <<>> /\ flog = <<>>
    /\ fresult = NoResult

NextInbound ==
    \/ InboundValidate
    \/ InboundDump

\* One inbound is built from the wire, dumped, and built again from the dump.
SpecInbound == InitInbound /\ [][NextInbound]_vars


-----------------------------------------------------------------------------
(* Two tasks in _safe_request on the one client (api.py): an application    *)
(* task and the task of clear_prod_inbound_cache, or two application tasks. *)
(* callers[c] holds the position of task c in its call.                     *)

\* A task that has not called yet.
NoTask == [pc |-> "idle", attempt |-> 0, resp |-> NoResp, log |-> <<>>, result |-> NoResult]

\* The answers of the transport to the tasks' requests and to their logins.
TaskResponses ==
    {[status |-> 404, body |-> BodyShort], [status |-> 200, body |-> BodyOk],
     [status |-> 200, body |-> BodyLocked]}

TaskLoginResponses == {[status |-> 200, body |-> BodyOk], [status |-> 200, body |-> BodyError]}

\* The task's record when the loop of _safe_request moves on from attempt a.
TaskNextAttempt(task, a) ==
    IF HasNext(a, max_retries)
    THEN [task EXCEPT !.pc = "request", !.attempt = a + 1]
    ELSE [task EXCEPT !.pc = "done", !.result = Raise("RuntimeError:didn't exit")]

\* Task c calls safe_get.
TaskCall(c) ==
    /\ callers[c].pc = "idle"
    /\ LET t == callers[c]
       IN  callers' = [callers EXCEPT ![c] =
                          IF session = 0
                          THEN [t EXCEPT !.pc = "done",
                                         !.result = Raise("RuntimeError:Session is not initialized")]
                          ELSE TaskNextAttempt(t, 0 - 1)]
    /\ UNCHANGED <<objvars, sessvars, session_start, cfgvars, now, callvars, vin, vout,
                   panel, cache, tasks, bg, epoch, returns, opvars>>

\* The request of task c is answered by r, and the loop body runs up to its
\* next await, return or raise. The login of the 404 branch is called
\* whatever the other task is doing.
TaskResponse(c, r) ==
    /\ callers[c].pc = "request"
    /\ LET t == callers[c]
           d == safe_request_step(r, t.attempt, max_retries, session_start, now,
                                  session_duration)
           lg == t.log \o <<Event("request", r.status, "")>>
                 \o (IF d.cls # "" THEN <<Event("validate", r.status, d.cls)>> ELSE <<>>)
       IN  callers' = [callers EXCEPT ![c] =
              CASE d.do = "login" -> [t EXCEPT !.pc = "relogin", !.resp = r, !.log = lg]
                [] d.do = "sleep" -> [t EXCEPT !.pc = "sleep", !.resp = r, !.log = lg]
                [] d.do = "return" -> [t EXCEPT !.pc = "done", !.resp = r, !.log = lg,
                                                !.result = Returned("safe_get", r)]
                [] OTHER -> [t EXCEPT !.pc = "done", !.resp = r, !.log = lg,
                                      !.result = Raise(d.exc)]]
    /\ UNCHANGED <<objvars, sessvars, session_start, cfgvars, now, callvars, vin, vout,
                   panel, cache, tasks, bg, epoch, returns, opvars>>

\* The login POST of task c is answered by r.
TaskLoginResponse(c, r) ==
    /\ callers[c].pc = "relogin"
    /\ LET t == callers[c]
           l == login_step(r, session_start, now)
           lg == Append(t.log, Event("login", r.status, LoginSays(r)))
       IN  /\ session_start' = l.start
           /\ callers' = [callers EXCEPT ![c] =
                 IF l.res.kind = "raise"
                 THEN [t EXCEPT !.pc = "done", !.log = lg, !.result = l.res]
                 ELSE TaskNextAttempt([t EXCEPT !.log = lg], t.attempt)]
    /\ UNCHANGED <<objvars, sessvars, cfgvars, now, callvars, vin, vout,
                   panel, cache, tasks, bg, epoch, returns, opvars>>

\* The sleep of task c after a DB_LOCKED answer is over.
TaskSleepDone(c) ==
    /\ callers[c].pc = "sleep"
    /\ now' = IF now + RETRY_DELAY <= MaxTime THEN now + RETRY_DELAY ELSE MaxTime
    /\ LET t == callers[c]
       IN  callers' = [callers EXCEPT ![c] =
                          TaskNextAttempt([t EXCEPT !.log = Append(t.log, Event("sleep", 0, ""))],
                                          t.attempt)]
    /\ UNCHANGED <<objvars, sessvars, session_start, cfgvars, callvars, vin, vout,
                   panel, cache, tasks, bg, epoch, returns, opvars>>

\* The client is connected; it has logged in at time 0 or not at all; no
\* task has called yet.
InitTasks ==
    /\ vin = <<>> /\ vout = "unused"
    /\ instance = 1 /\ objects = 1 /\ refs = {1}
    /\ session = 1 /\ sessions = 1 /\ closed = {}
    /\ session_start \in {None, 0}
    /\ session_duration \in Durations
    /\ max_retries \in {1, 2, 3}
    /\ now = 0
    /\ pc = "idle" /\ op = "" /\ attempt = 0 /\ resp = NoResp /\ log = <<>>
    /\ result = NoResult
    /\ panel = <<>> /\ cache = NoEntry /\ tasks = <<>> /\ bg = NoBg
    /\ callers = [c \in Callers |-> NoTask]
    /\ epoch = 0 /\ returns = {}
    /\ fpc = "idle" /\ fop = "" /\ fargs = <<>> /\ responses = <<>> /\ flog = <<>>
    /\ fresult = NoResult

NextTasks ==
    \/ \E c \in Callers : TaskCall(c)
    \/ \E c \in Callers, r \in TaskResponses : TaskResponse(c, r)
    \/ \E c \in Callers, r \in TaskLoginResponses : TaskLoginResponse(c, r)
    \/ \E c \in Callers : TaskSleepDone(c)
    \/ Tick

\* Two tasks, each making one call through _safe_request, interleaved at
\* their awaits.
SpecTasks == InitTasks /\ [][NextTasks]_vars


-----------------------------------------------------------------------------
(* connect() on a client that already holds a session, and __aexit__        *)
(* (api.py).                                                                *)

\* XUIClient.connect called again: a new AsyncClient replaces the one held;
\* nothing else of the client is assigned.
Reconnect ==
    /\ pc = "idle" /\ session # 0
    /\ sessions < MaxSessions + 1
    /\ sessions' = sessions + 1
    /\ session' = sessions + 1
    /\ UNCHANGED <<objvars, closed, session_start, cfgvars, now, callvars, vin, vout, facadevars>>

\* The client is constructed and connected and has not logged in.
InitSession ==
    /\ vin = <<>> /\ vout = "unused"
    /\ instance = 1 /\ objects = 1 /\ refs = {1}
    /\ session = 1 /\ sessions = 1 /\ closed = {}
    /\ session_start = None
    /\ session_duration \in Durations
    /\ max_retries \in {1, 2}
    /\ now = 0
    /\ pc = "idle" /\ op = "" /\ attempt = 0 /\ resp = NoResp /\ log = <<>>
    /\ result = NoResult
    /\ panel = <<>> /\ cache = NoEntry /\ tasks = <<>> /\ bg = NoBg /\ callers = <<>>
    /\ epoch = 0 /\ returns = {}
    /\ fpc = "idle" /\ fop = "" /\ fargs = <<>> /\ responses = <<>> /\ flog = <<>>
    /\ fresult = NoResult

NextSession ==
    \/ CallLogin
    \/ \E r \in TaskLoginResponses : LoginResponse(r)
    \/ Reconnect
    \/ \E m \in SafeMethods : Call(m)
    \/ \E r \in TaskResponses : HttpResponse(r)
    \/ SleepDone
    \/ Tick
    \/ Finish

\* One task that logs in, connects again and makes safe requests, in any
\* order.
SpecSession == InitSession /\ [][NextSession]_vars

\* XUIClient.__aexit__: disconnect() closes the session held; the task of
\* clear_prod_inbound_cache is not touched.
AExit ==
    /\ bg.pc # "off" /\ session \notin closed
    /\ closed' = closed \cup {session}
    /\ UNCHANGED <<objvars, session, sessions, session_start, cfgvars, now, callvars, vin, vout,
                   panel, cache, tasks, bg, callers, epoch, returns, opvars>>

ClientClosed == "RuntimeError:client closed"

\* A task running get_production_inbounds ends while the session is open.
FetchDoneOpen(t, out) == session \notin closed /\ FetchDone(t, out)

\* A task running get_production_inbounds ends after the session was closed:
\* the transport refuses the request of get_all.
FetchDoneClosed(t) == session \in closed /\ FetchDone(t, ClientClosed)

NextContext ==
    \/ AEnter
    \/ AExit
    \/ BgClear
    \/ \E t \in 1..MaxFetches, out \in {"ok"} \cup GetAllFailures : FetchDoneOpen(t, out)
    \/ \E t \in 1..MaxFetches : FetchDoneClosed(t)
    \/ BgResume
    \/ BgWake
    \/ \E c \in Callers : CallerCall(c)
    \/ \E c \in Callers : CallerResume(c)

\* The client through one `async with` block and after it.
SpecContext == InitCache /\ [][NextContext]_vars

-----------------------------------------------------------------------------
(* What the log of a call says.                                             *)

Count(lg, e) == Cardinality({i \in 1..Len(lg) : lg[i].ev = e})

NumRequests == Count(log, "request")

NumLogins == Count(log, "login")

NumSleeps == Count(log, "sleep")

Is2xx(st) == st \div 100 = 2

\* Every request of the call so far was answered 2xx with a DB_LOCKED envelope.
AllLocked ==
    /\ NumRequests >= 1
    /\ NumLogins = 0
    /\ \A i \in 1..Len(log) :
          log[i].ev = "request" =>
             /\ Is2xx(log[i].st)
             /\ i < Len(log) /\ log[i + 1] = Event("validate", log[i].st, "DB_LOCKED")

ThroughSafeRequest == op \in SafeMethods \cup ReadMethods

TooManyRetries == Raise("RuntimeError:Too many retries")

-----------------------------------------------------------------------------
(* The claims.                                                              *)

\* C1: a call through _safe_request with max_retries = N >= 1 whose every
\* request is answered 2xx DB_LOCKED has issued exactly N requests when it
\* ends, and ends in 'Too many retries'; while it runs it sleeps only with
\* fewer than N requests behind it, once after each of them.
C1_RetryBound ==
    (ThroughSafeRequest /\ max_retries >= 1 /\ AllLocked) =>
        /\ NumRequests <= max_retries
        /\ pc = "done" => (NumRequests = max_retries /\ result = TooManyRetries
                           /\ NumSleeps = max_retries - 1)
        /\ pc = "sleep" => NumRequests < max_retries

C1_Witness ==
    /\ pc = "done" /\ op = "safe_get" /\ max_retries = 3 /\ AllLocked
    /\ NumRequests = 3 /\ result = TooManyRetries

\* C2: in a safe GET, every 404 that leads to a login which succeeds is
\* followed by another request of the call.
C2_ReloginThenRetry ==
    (pc = "done" /\ op = "safe_get") =>
        \A i \in 1..Len(log) :
            (/\ log[i] = Event("request", 404, "")
             /\ i < Len(log)
             /\ log[i + 1] = Event("login", 200, "success:true"))
            => \E j \in (i + 2)..Len(log) : log[j].ev = "request"

\* C3: on an envelope whose keys are success, msg, obj (here: in that
\* order) and whose success is a boolean, the validator returns OK iff
\* success is true, DB_LOCKED iff success is false and msg contains
\* "database" and "locked" in any case, and ERROR in every remaining case.
C3_Classification ==
    (vout # "pending" /\ Keys(vin) = StdKeys /\ Get(vin, "success").t = "bool") =>
        LET success == Get(vin, "success").b
            msg == Get(vin, "msg")
            saysLocked == /\ msg.t = "str"
                          /\ Contains(Lower(msg.s), DATABASE)
                          /\ Contains(Lower(msg.s), LOCKED)
        IN  /\ vout = "OK" <=> success
            /\ vout = "DB_LOCKED" <=> (~success /\ saysLocked)
            /\ vout = "ERROR" <=> (~success /\ ~saysLocked)

\* The object has exactly the keys success, msg and obj, in any order.
RightKeys(obj) == Len(obj) = 3 /\ {obj[i][1] : i \in 1..Len(obj)} = {"success", "msg", "obj"}

\* C4: the validator ends in the format error exactly on the objects whose
\* key set is not {success, msg, obj}, whatever the order of the keys, and
\* classifies no such object.
C4_ShapeCheck ==
    vout # "pending" =>
        /\ vout = "FormatError" <=> ~RightKeys(vin)
        /\ vout \in {"OK", "DB_LOCKED", "ERROR"} => RightKeys(vin)

\* C5: a response whose status is neither 2xx nor 404 is the last thing the
\* call does: no validator run, login, sleep or request follows it, and the
\* call has ended in the wrong-status error.
C5_StatusBeforeBody ==
    \A i \in 1..Len(log) :
        (log[i].ev = "request" /\ ~Is2xx(log[i].st) /\ log[i].st # 404) =>
            /\ i = Len(log)
            /\ pc = "done"
            /\ result = Raise("RuntimeError:Wrong status code")

C5_Witness ==
    /\ pc = "done" /\ resp = [status |-> 401, body |-> BodyLocked]
    /\ NumRequests = 2
    /\ result = Raise("RuntimeError:Wrong status code")

Real404 == Raise("RuntimeError:real 404")

\* C6: a 404 received while session_start is set and not older than
\* session_duration ends the call in the genuine-404 error at once, with
\* session_start unchanged; no login and no further request follow.
C6_Genuine404 ==
    /\ [][(/\ pc = "request"
           /\ log' = Append(log, Event("request", 404, ""))
           /\ session_start # None
           /\ now - session_start <= session_duration)
          => (pc' = "done" /\ result' = Real404 /\ session_start' = session_start)]_vars
    /\ [](result = Real404 =>
            (pc = "done" /\ log[Len(log)] = Event("request", 404, "")))

C6_Witness ==
    /\ pc = "done" /\ result = Real404 /\ session_start # None
    /\ now - session_start <= session_duration

\* C7: a read method of an endpoint group whose request is answered 2xx with
\* an envelope the validator classifies ERROR ends in an exception.
C7_NoSilentFailure ==
    (/\ pc = "done" /\ op \in ReadMethods /\ Len(log) > 0
     /\ log[Len(log)].ev = "validate" /\ log[Len(log)].cls = "ERROR")
    => result.kind = "raise"

\* C8: a login POST answered 200 with success true sets session_start to the
\* time of the answer, whatever it was, and login called by the application
\* returns without error.
C8_LoginSuccess ==
    [][(/\ pc \in {"login", "relogin"}
        /\ log' = Append(log, Event("login", 200, "success:true")))
       => (/\ session_start' = now /\ session_start' # None
           /\ pc = "login" => (pc' = "done" /\ result' = Return(JNull)))]_vars

C8_Witness ==
    /\ pc = "done" /\ op = "login" /\ result = Return(JNull)
    /\ log = <<Event("login", 200, "success:true")>>
    /\ session_start = now /\ now > 0

\* C9: a login POST answered 200 with success false ends login in ValueError,
\* one answered with another status (201 too) in RuntimeError; session_start
\* keeps its value, and login called by the application has sent one POST
\* and nothing else.
C9_LoginFailure ==
    /\ [][(/\ pc \in {"login", "relogin"}
           /\ Len(log') = Len(log) + 1
           /\ log'[Len(log')].ev = "login"
           /\ ~(log'[Len(log')].st = 200 /\ log'[Len(log')].cls = "success:true"))
          => (/\ pc' = "done"
              /\ session_start' = session_start
              /\ result' = IF log'[Len(log')].st = 200
                            THEN Raise("ValueError:wrong credentials")
                            ELSE Raise("RuntimeError:login status"))]_vars
    /\ []((op = "login" /\ pc = "done" /\ session # 0 /\ session \notin closed)
           => (Len(log) = 1 /\ log[1].ev = "login"))

C9_Witness ==
    /\ pc = "done" /\ op = "login" /\ result = Raise("RuntimeError:login status")
    /\ log = <<Event("login", 201, "success:true")>>
    /\ session_start # None

\* C10: at most one XUIClient object is ever allocated, and every
\* XUIClient(...) expression has returned the object _instance refers to.
C10_Singleton ==
    /\ objects <= 1
    /\ Cardinality(refs) <= 1
    /\ \A r \in refs : r = instance

\* A second construction, after connect(): __init__ has reset session.
C10_Witness == refs = {1} /\ instance = 1 /\ sessions = 1 /\ session = 0

\* C11: the task of clear_prod_inbound_cache, once started, is never over:
\* after every refill, failed ones too, it is at its sleep or back at the
\* invalidation.
C11_RefreshGoesOn == bg.pc # "dead"

\* The tasks the cache started in epoch e that have not ended in an exception.
Fetched(e) ==
    {t \in 1..Len(tasks) : tasks[t].epoch = e /\ tasks[t].res.kind # "raise"}

Starts == SelectSeq(flog, LAMBDA e : e.ev = "start")

\* The calls that have ended.
Ends == SelectSeq(flog, LAMBDA e : e.ev = "end")

DeleteAll == fop = "delete_client_by_tgid_all_inbounds"

\* C14: delete_client_by_tgid_all_inbounds starts its delete calls in the
\* order of the production inbounds, each for that inbound's id and the email
\* of (telegram id, that id), each after the one before has ended; when it
\* returns, every inbound has had its call and the list returned holds the
\* responses of the calls in that order.
C14_SequentialDelete ==
    DeleteAll =>
        LET inbounds == fargs.production_inbounds
        IN  /\ Len(Starts) <= Len(inbounds)
            /\ \A i \in 1..Len(Starts) :
                  /\ Starts[i].inbound = inbounds[i].id
                  /\ Starts[i].email =
                        generate_email_from_tgid_inbid(fargs.telegram_id, inbounds[i].id)
            /\ \A j \in 1..Len(flog) : flog[j].ev = IF j % 2 = 1 THEN "start" ELSE "end"
            /\ (fpc = "done" /\ \A i \in 1..Len(Ends) : Ends[i].exc = "") =>
                  /\ fresult.kind = "return"
                  /\ Len(fresult.value) = Len(inbounds)
                  /\ \A i \in 1..Len(inbounds) :
                        /\ Ends[i].inbound = inbounds[i].id
                        /\ fresult.value[i] = Ends[i].resp

\* Three production inbounds, three deletes with different responses, the
\* third one retried after a DB_LOCKED answer.
C14_Witness ==
    /\ DeleteAll /\ fpc = "done" /\ fresult.kind = "return"
    /\ Len(fresult.value) = 3
    /\ fresult.value[1].body = BodyOk /\ fresult.value[2].body = BodyError
    /\ NumSleeps = 1

\* C15: when delete_client_by_tgid_all_inbounds is over, every production
\* inbound has had its delete call and the caller has a list with one
\* outcome per inbound, whether calls failed or not.
C15_IndependentOutcomes ==
    (DeleteAll /\ fpc = "done") =>
        /\ Len(Starts) = Len(fargs.production_inbounds)
        /\ fresult.kind = "return"
        /\ Len(fresult.value) = Len(fargs.production_inbounds)

\* The exceptions that are a ValueError: the one add_client raises itself and
\* pydantic's ValidationError, which derives from it.
IsValueError(exc) == exc \in {NoParent, "ValidationError"}

\* C16: add_client with one client (a SingleInboundClient or a dict of one
\* client) and no inbound_id ends in ValueError without a request; with one
\* client and an inbound_id, or with an InboundClients, it makes one add
\* request whose body has the bulk shape, under the given inbound id.
C16_AddNeedsParent ==
    (fop = "add_client" /\ fpc \in {"posting", "done"}) =>
        LET client == fargs.client
            single == \/ client.kind = "SingleInboundClient"
                      \/ client.kind = "dict" /\ client.keys = SingleClientDict
        IN  /\ (single /\ fargs.inbound_id = None) =>
                  /\ fpc = "done" /\ fresult.kind = "raise" /\ IsValueError(fresult.exc)
                  /\ Len(Starts) = 0
            /\ ((single /\ fargs.inbound_id # None) \/ client.kind = "InboundClients") =>
                  /\ Len(Starts) = 1
                  /\ Starts[1].endpoint = "addClient"
                  /\ \E i \in 1..Len(Starts[1].data) : Starts[1].data[i] = "settings"
                  /\ single => Starts[1].inbound = fargs.inbound_id

\* The override given for the field f: the keyword of subscription_id is
\* sub_id; tg_id, created_at and updated_at have none.
OverrideOf(f) ==
    CASE f = "subscription_id" -> fargs.overrides.sub_id
      [] f \in {"uuid", "tg_id", "created_at", "updated_at"} -> PNone
      [] OTHER -> fargs.overrides[f]

\* C17: the record update_single_client sends has, under each field's alias,
\* the override where one was given, the time of the call in updated_at, and
\* the value of existing_client everywhere else; existing_client is as it
\* was passed.
C17_UpdateFrame ==
    (fop = "update_single_client" /\ Len(Starts) = 1) =>
        /\ DOMAIN Starts[1].data = Aliases
        /\ \A f \in Fields :
              Starts[1].data[Alias(f)] =
                 IF f = "updated_at" THEN PInt(fargs.called_at)
                 ELSE IF OverrideOf(f) # PNone THEN OverrideOf(f)
                 ELSE fargs.passed[f]
        /\ fargs.existing_client = fargs.passed

\* The request is answered; sub_id, flow = "" and enable = False were given,
\* comment and limit_gb were not, on a client whose values differ from them.
C17_Witness ==
    /\ fop = "update_single_client" /\ fpc = "done" /\ fresult.kind = "return"
    /\ fargs.overrides.sub_id # PNone /\ fargs.overrides.flow = PStr("")
    /\ fargs.overrides.enable = PBool(FALSE)
    /\ fargs.overrides.comment = PNone /\ fargs.overrides.limit_gb = PNone
    /\ fargs.passed.flow # PStr("") /\ fargs.passed.enable = PBool(TRUE)
    /\ Starts[1].data["subId"] = PStr("Nw") /\ Starts[1].data["flow"] = PStr("")
    /\ Starts[1].data["updated_at"] = PInt(2)
    /\ Starts[1].data["totalGB"] = PInt(0)

\* C18: when get_client_with_email has returned the client's record,
\* update_client_by_tgid has asked for it under the email of (telegram_id,
\* inbound_id), goes on to exactly one update request, and returns the
\* response of that request when it is answered.
C18_UpdateByTgid ==
    (/\ fop = "update_client_by_tgid" /\ fpc = "done"
     /\ Len(Ends) >= 1 /\ Ends[1].exc = "") =>
        /\ Starts[1].endpoint = "getClientTraffics"
        /\ Starts[1].email =
              generate_email_from_tgid_inbid(fargs.telegram_id, fargs.inbound_id)
        /\ Len(Starts) = 2 /\ Starts[2].endpoint = "updateClient"
        /\ (Len(Ends) = 2 /\ Ends[2].exc = "") => fresult = Return(Ends[2].resp)

\* C13: get_production_inbounds returns, in the panel's order, exactly the
\* inbounds whose remark carries the marker in any spelling, and never an
\* empty list: with no such inbound it ends in the RuntimeError.
C13_ProductionFilter ==
    (fop = "get_production_inbounds" /\ fpc = "done") =>
        LET marked == SelectSeq(panel, LAMBDA inb : inb.remark \in MarkedRemarks)
        IN  IF marked = <<>>
            THEN fresult = NoProduction
            ELSE fresult.kind = "return" /\ fresult.value = marked /\ Len(fresult.value) > 0

\* A list of three whose first and last inbound are production inbounds,
\* spelled differently from the marker.
C13_Witness ==
    /\ fop = "get_production_inbounds" /\ fpc = "done"
    /\ Len(panel) = 3
    /\ panel[2].remark \in UnmarkedRemarks
    /\ fresult.kind = "return"
    /\ fresult.value = <<panel[1], panel[3]>>
    /\ panel[1].remark # panel[3].remark
    /\ ~Contains(panel[3].remark, PROD_STRING)

\* The positions in flog of the clients create_and_add_prod_client submitted.
Submitted == {i \in 1..Len(flog) : flog[i].ev = "start" /\ flog[i].endpoint = "addClient"}

\* C19: two clients that create_and_add_prod_client builds for the same
\* telegram id, at whatever clock times and in whatever calls, have the same
\* UUID (get_telegram_uuid in its fixed mode) and the same subscription id
\* (sub_from_tgid), and for the same inbound the same email
\* (generate_email_from_tgid_inbid).
C19_Deterministic ==
    \A i, j \in Submitted :
        flog[i].data.telegram_id = flog[j].data.telegram_id
        => /\ flog[i].data.client.id = flog[j].data.client.id
           /\ flog[i].data.client.subId = flog[j].data.client.subId
           /\ (flog[i].inbound = flog[j].inbound
               => flog[i].data.client.email = flog[j].data.client.email)

\* Two calls for the same telegram id, a 13-digit one, submitted a client to
\* the same inbound in different minutes of the clock.
C19_Witness ==
    \E i, j \in Submitted :
        /\ flog[i].data.telegram_id = TgId(1234, 567890123)
        /\ flog[j].data.telegram_id = TgId(1234, 567890123)
        /\ flog[i].inbound = flog[j].inbound
        /\ flog[i].data.client.comment_at # flog[j].data.client.comment_at

\* C20: the clients create_and_add_prod_client submitted for different
\* telegram ids have different UUIDs, and those submitted for different
\* pairs of telegram id and inbound have different emails; so inside one
\* inbound no two clients of different telegram ids share an email or a UUID.
C20_UniqueIdentifiers ==
    \A i, j \in Submitted :
        /\ flog[i].data.telegram_id # flog[j].data.telegram_id
           => flog[i].data.client.id # flog[j].data.client.id
        /\ (flog[i].data.telegram_id # flog[j].data.telegram_id
            \/ flog[i].inbound # flog[j].inbound)
           => flog[i].data.client.email # flog[j].data.client.email

\* Clients were submitted for the telegram id 1 to the inbounds 2 and 12 and
\* for the telegram id 11 to the inbound 2.
C20_Witness ==
    \E i, j, k \in Submitted :
        /\ flog[i].data.telegram_id = TgId(0, 1) /\ flog[i].inbound = 2
        /\ flog[j].data.telegram_id = TgId(0, 1) /\ flog[j].inbound = 12
        /\ flog[k].data.telegram_id = TgId(0, 11) /\ flog[k].inbound = 2

\* C21: when an Inbound built from the wire is dumped and the dump is
\* validated again, each of settings, streamSettings and sniffing holds the
\* same JSON value (same keys, same values, in the same order) as after the
\* first validation, and that second validation does not fail; a field that
\* was the empty string on the wire is the empty string in the model and in
\* the dump.
C21_RoundTrip ==
    /\ fpc = "done" => Len(flog) = 0
    /\ fpc \in {"dumped", "reloaded"} =>
          \A f \in JsonFields :
              fargs[f] = <<>> => (flog[1].fields[f] = VStr(<<>>) /\ flog[2].fields[f] = <<>>)
    /\ fpc = "reloaded" =>
          \A f \in JsonFields : flog[3].fields[f] = flog[1].fields[f]

\* The round trip was made with a document whose string holds a quote and a
\* backslash, one with a repeated key and no document at all.
C21_Witness ==
    /\ fpc = "reloaded"
    /\ fargs["settings"] = <<"{","\"","q","\"",":"," ","\"","x","\\","\"","y","\\","\\","z","\"","}">>
    /\ fargs["streamSettings"] = <<"{","\"","a","\"",":"," ","1",","," ","\"","a","\"",":"," ","2","}">>
    /\ fargs["sniffing"] = <<>>
    /\ flog[1].fields["settings"] = VDict(<<Item(<<"q">>, VStr(<<"x","\"","y","\\","z">>))>>)
    /\ flog[1].fields["streamSettings"] = VDict(<<Item(<<"a">>, VInt(2))>>)

\* The validator has classified this many answers of the call DB_LOCKED.
NumLocked ==
    Cardinality({i \in 1..Len(log) : log[i].ev = "validate" /\ log[i].cls = "DB_LOCKED"})

\* The call has logged in once, successfully, after a 404, and every other
\* request of it was answered 2xx with a DB_LOCKED envelope.
OneReloginElseLocked ==
    /\ NumLogins = 1
    /\ \E i \in 1..(Len(log) - 1) :
          log[i] = Event("request", 404, "") /\ log[i + 1] = Event("login", 200, "success:true")
    /\ \A i \in 1..Len(log) :
          (log[i].ev = "request" /\ log[i].st # 404) =>
             /\ Is2xx(log[i].st)
             /\ i < Len(log) /\ log[i + 1] = Event("validate", log[i].st, "DB_LOCKED")

\* C22: a call through _safe_request with max_retries >= 1 that has logged in
\* again once after a 404 and was otherwise answered DB_LOCKED only has, when
\* it ends, made max_retries DB_LOCKED attempts and ends in 'Too many
\* retries'.
C22_ReloginKeepsAttempt ==
    (ThroughSafeRequest /\ pc = "done" /\ max_retries >= 1 /\ OneReloginElseLocked) =>
        (NumLocked = max_retries /\ result = TooManyRetries)

\* The step is the answer to a request of safe_get or safe_post with a 2xx
\* status and an envelope the validator classifies cls.
Answered2xx(cls) ==
    /\ pc = "request" /\ op \in SafeMethods
    /\ Len(log') = Len(log) + 2
    /\ log'[Len(log') - 1].ev = "request" /\ Is2xx(log'[Len(log') - 1].st)
    /\ log'[Len(log')] = Event("validate", log'[Len(log') - 1].st, cls)

\* C23: in safe_get and safe_post, a 2xx answer classified OK or ERROR ends
\* the call at once with that response returned (no sleep, no exception); a
\* 2xx answer classified DB_LOCKED ends the call in 'Too many retries'
\* without a sleep when the attempt is the last one (attempt + 1 =
\* max_retries), and otherwise puts the call to sleep, and that sleep lasts
\* retry_delay, is the only one, and is followed by the next attempt.
C23_BodyOutcomes ==
    /\ [][(Answered2xx("OK") \/ Answered2xx("ERROR"))
          => (/\ pc' = "done"
              /\ result' = Return(Get(resp'.body, "obj"))
              /\ resp'.status = log'[Len(log') - 1].st)]_vars
    /\ [][Answered2xx("DB_LOCKED")
          => IF attempt + 1 >= max_retries
             THEN pc' = "done" /\ result' = TooManyRetries
             ELSE pc' = "sleep" /\ attempt' = attempt /\ result' = result]_vars
    /\ [][(pc = "sleep" /\ (pc' # pc \/ log' # log))
          => (/\ pc' = "request"
              /\ attempt' = attempt + 1
              /\ log' = Append(log, Event("sleep", 0, ""))
              /\ now' = IF now + RETRY_DELAY <= MaxTime THEN now + RETRY_DELAY
                        ELSE MaxTime)]_vars

\* A safe_post was answered DB_LOCKED, slept once, and was then answered with
\* an ERROR envelope, which it returned.
C23_Witness ==
    /\ pc = "done" /\ op = "safe_post" /\ result.kind = "return"
    /\ NumRequests = 2 /\ NumSleeps = 1 /\ NumLocked = 1
    /\ log[Len(log)] = Event("validate", 200, "ERROR")
    /\ resp = [status |-> 200, body |-> BodyError]

DidntExit == Raise("RuntimeError:didn't exit")

\* C25: a call through _safe_request has issued at most max_retries requests
\* (those answered 404 and followed by a login included); each step of it
\* that does not end it adds to what it has done, which is bounded by three
\* events per request, so it ends after finitely many answers; when it has
\* ended it has raised or returned a response with a 2xx status; and it ends
\* in the 'didn't exit' RuntimeError exactly when the loop ran out: with
\* max_retries = 0 and no request, or after a successful login that followed
\* the 404 of the last attempt.
C25_BoundedAttempts ==
    /\ [](ThroughSafeRequest =>
            /\ NumRequests <= max_retries
            /\ Len(log) <= 3 * NumRequests
            /\ pc = "done" =>
                  /\ result.kind \in {"return", "raise"}
                  /\ result.kind = "return" => (resp # NoResp /\ Is2xx(resp.status))
                  /\ result = DidntExit <=>
                        \/ max_retries = 0 /\ session # 0 /\ Len(log) = 0
                        \/ /\ NumRequests = max_retries /\ Len(log) >= 2
                           /\ log[Len(log)] = Event("login", 200, "success:true")
                           /\ log[Len(log) - 1] = Event("request", 404, ""))
    /\ [][(ThroughSafeRequest /\ pc \in {"request", "sleep", "relogin"} /\ pc' # "done"
           /\ pc' # pc)
          => Len(log') > Len(log)]_vars

\* With max_retries = 2, a safe_post was answered DB_LOCKED and then 404; the
\* login succeeded and the loop had no attempt left.
C25_Witness ==
    /\ pc = "done" /\ op = "safe_post" /\ max_retries = 2 /\ result = DidntExit
    /\ NumRequests = 2 /\ NumSleeps = 1 /\ NumLogins = 1

\* C26: in a call through _safe_request that has logged in again, a 404 that
\* arrives while the new session_start is not older than session_duration
\* ends the call in the genuine-404 error without another login, so a call
\* with two logins has seen more than session_duration pass; and a login of
\* the call that fails ends the call in login's error, with no request after
\* it.
C26_OneRelogin ==
    /\ [][(/\ ThroughSafeRequest /\ pc = "request" /\ NumLogins >= 1
           /\ log' = Append(log, Event("request", 404, ""))
           /\ session_start # None /\ now - session_start <= session_duration)
          => (pc' = "done" /\ result' = Real404 /\ session_start' = session_start)]_vars
    /\ []((ThroughSafeRequest /\ NumLogins >= 2) => now > session_duration)
    /\ [](ThroughSafeRequest =>
            \A i \in 1..Len(log) :
               (log[i].ev = "login" /\ log[i] # Event("login", 200, "success:true")) =>
                   /\ i = Len(log) /\ pc = "done"
                   /\ result \in {Raise("ValueError:wrong credentials"),
                                  Raise("RuntimeError:login status"), Raise("KeyError")})

\* A safe_get got 404, logged in, got 404 again at once and ended in the
\* genuine-404 error.
C26_Witness ==
    /\ pc = "done" /\ op = "safe_get" /\ result = Real404
    /\ NumRequests = 2 /\ NumLogins = 1
    /\ log[2] = Event("login", 200, "success:true")
    /\ log[3] = Event("request", 404, "")
    /\ session_start = now

\* C24: the body update_single_client sends through _request_update_client
\* for one client and the parent inbound id n carries n as its parent id and
\* the client under the aliases of its fields.
C24_WireShape ==
    \A i \in 1..Len(flog) :
        (flog[i].ev = "start" /\ flog[i].endpoint = "updateClient" /\ fargs.inbound_id.t = "int")
        => /\ flog[i].inbound = fargs.inbound_id.n
           /\ DOMAIN flog[i].data = Aliases

LoginOk == Event("login", 200, "success:true")

\* Task c has logged in successfully in its call.
HasLoggedIn(c) == \E i \in 1..Len(callers[c].log) : callers[c].log[i] = LoginOk

C28_SessionStartTied ==
    [][session' # session => session_start' = None]_vars

\* C29: no step, a further XUIClient(...) in particular, takes the session or
\* the session_start away from an existing instance, and a safe request of a
\* client that has connected does not end in 'Session is not initialized'.
C29_ConstructKeepsSession ==
    /\ [][instance # 0 =>
            /\ session # 0 => session' = session \/ session' > session
            /\ session_start # None => session_start' # None]_vars
    /\ []((pc = "done" /\ result = Raise("RuntimeError:Session is not initialized"))
           => sessions = 0)

\* C30: once __aexit__ has closed the session, the task of
\* clear_prod_inbound_cache is over and no call of get_production_inbounds
\* is running or started on the closed session.
C30_StoppedOnExit ==
    (session # 0 /\ session \in closed) =>
        /\ bg.pc \in {"off", "dead"}
        /\ \A t \in 1..Len(tasks) : tasks[t].state = "done"

=============================================================================
